---- MODULE Spec2Model ----
(***************************************************************************)
(* AutoTweet-Bot: the scheduler's fire action, the two history append      *)
(* paths, the tweet trimming and the generators of the content manager,    *)
(* the history store, the slot draw and the listing of the scheduler, the  *)
(* start of the bot and the construction of the posting client.            *)
(*                                                                         *)
(* Texts are sequences of one-character strings.  Four characters stand    *)
(* for the four classes the code distinguishes: "a" is a word character    *)
(* (matched by \w), " " is whitespace (removed by str.strip), "#" opens a  *)
(* hashtag and "." is any other character.                                 *)
(***************************************************************************)
EXTENDS Integers, Sequences, FiniteSets, TLC

VARIABLES
    is_running,       \* TweetScheduler.is_running
    scheduled_times,  \* TweetScheduler.scheduled_times
    aps_state,        \* BackgroundScheduler: "stopped" or "running"
    aps_pending,      \* BackgroundScheduler: jobs added while stopped
    aps_jobs,         \* BackgroundScheduler: job store, job id -> trigger
    pool_alive,       \* BackgroundScheduler: the executor pool accepts jobs
    shutdowns,        \* number of BackgroundScheduler.shutdown calls so far
    stops,            \* number of stop() calls that found is_running set
    sleeping,         \* callers of start() blocked in its sleep loop
    last_call,        \* the last start()/stop() call and how it ended
    env_DRY_RUN,      \* os.environ['DRY_RUN'], NoValue when unset
    history,          \* storage/history.json
    fire,             \* per job: the running or last post_scheduled_tweet
    append_path,      \* the append operation a caller of the log uses
    appended,         \* the records that caller has appended so far
    tweet,          \* _trim_tweet: the text handed to the call
    max_length,     \* _trim_tweet: the max_length argument of the call
    trim_result,    \* _trim_tweet(tweet, max_length)
    trim_again,     \* _trim_tweet(trim_result, max_length)
    trim_pc,        \* "build" while the text is composed, "done" after the call
    nparts,         \* number of runs the text was composed of
    generators,     \* ContentManager.generators and how its construction ended
    generated,      \* the last ContentManager.generate_tweet call
    selection,      \* the last weighted_random_choice call
    store_call,     \* the last call of the history store since the log file
                    \* was last changed from outside
    listed,         \* the last get_scheduled_jobs call or list-scheduled command
    bot,            \* the AutoTweetBot of the process and where its start is
    twitter         \* TwitterConfig, TwitterClient._instance and the last
                    \* TwitterClient() construction

trimVars == <<tweet, max_length, trim_result, trim_again, trim_pc, nparts>>

apsVars == <<aps_state, aps_pending, aps_jobs, pool_alive, shutdowns>>

schedVars == <<is_running, scheduled_times, aps_state, aps_pending, aps_jobs,
               pool_alive, shutdowns, stops, sleeping, last_call>>

appendVars == <<append_path, appended>>

\* the state of the components that are called on their own
contentVars == <<generators, generated>>

callVars == <<generators, generated, selection, store_call>>

\* the state of the commands, of the bot and of the posting client
cmdVars == <<listed, bot, twitter>>

botVars == <<is_running, scheduled_times, aps_state, aps_pending, aps_jobs,
             pool_alive, shutdowns, stops, sleeping, last_call, env_DRY_RUN,
             fire>>

vars == <<is_running, scheduled_times, aps_state, aps_pending, aps_jobs,
          pool_alive, shutdowns, stops, sleeping, last_call, env_DRY_RUN,
          history, fire, append_path, appended,
          tweet, max_length, trim_result, trim_again, trim_pc, nparts,
          generators, generated, selection, store_call, listed, bot, twitter>>

----------------------------------------------------------------------------
(* Bounds *)

MaxParts == 4       \* number of runs a text is composed of
MaxRounds == 2      \* number of schedule_tweets rounds on one scheduler
MaxAppends == 1002  \* number of appends one caller makes to the log
MaxItems == 3       \* number of categories handed to a weighted selection
MaxLog == 2         \* number of records in the log of the history store

----------------------------------------------------------------------------
(* Program constants *)

TWEET_LIMIT == 280      \* default of max_length
MIN_AVAILABLE == 20     \* body budget below which hashtags are given up
ELLIPSIS == <<".", ".", ".">>

----------------------------------------------------------------------------
(* Python string primitives *)

Min(a, b) == IF a <= b THEN a ELSE b
Max(a, b) == IF a >= b THEN a ELSE b

\* "C", "J", "M" and "S" each stand for one occurrence of a keyword of the
\* crypto, funny, finance and social family of _detect_category
KeywordChars == {"C", "J", "M", "S"}

IsWord(c) == c = "a" \/ c \in KeywordChars
IsSpace(c) == c = " "

\* s[:n] of Python: a negative n counts from the end
PySliceTo(s, n) ==
    IF n >= 0 THEN SubSeq(s, 1, Min(n, Len(s)))
    ELSE SubSeq(s, 1, Max(Len(s) + n, 0))

\* s[-n:] of Python for n >= 0; s[-0:] is the whole sequence
PySliceLast(s, n) ==
    IF n = 0 THEN s
    ELSE SubSeq(s, Max(Len(s) - n, 0) + 1, Len(s))

\* least j in i..Len(s) with P(s, j), or Len(s)+1 when there is none
FirstFrom(P(_, _), s, i) ==
    CHOOSE j \in i..(Len(s) + 1) :
        /\ (j = Len(s) + 1 \/ P(s, j))
        /\ \A k \in i..(j - 1) : ~P(s, k)

\* greatest j in 1..i with P(s, j), or 0 when there is none
LastUpTo(P(_, _), s, i) ==
    CHOOSE j \in 0..i :
        /\ (j = 0 \/ P(s, j))
        /\ \A k \in (j + 1)..i : ~P(s, k)

NotSpaceAt(s, i) == ~IsSpace(s[i])

\* str.strip()
Strip(s) == SubSeq(s, FirstFrom(NotSpaceAt, s, 1), LastUpTo(NotSpaceAt, s, Len(s)))

\* the word run that covers index i ends at i
WordEndsAt(s, i) == i = Len(s) \/ ~IsWord(s[i + 1])

\* end index of the maximal run of word characters that covers index i
WordRunEnd(s, i) == FirstFrom(WordEndsAt, s, i)

\* a match of #\w+ starts at i
HashtagAt(s, i) == s[i] = "#" /\ i + 1 <= Len(s) /\ IsWord(s[i + 1])

\* re.findall(r'#\w+', s), scanning from index i: leftmost match, greedy
RECURSIVE FindHashtags(_, _)
FindHashtags(s, i) ==
    LET h == FirstFrom(HashtagAt, s, i)
    IN  IF h > Len(s) THEN <<>>
        ELSE LET e == WordRunEnd(s, h + 1)
             IN  <<SubSeq(s, h, e)>> \o FindHashtags(s, e + 1)

\* re.sub(r'#\w+', '', s), scanning from index i
RECURSIVE RemoveHashtags(_, _)
RemoveHashtags(s, i) ==
    LET h == FirstFrom(HashtagAt, s, i)
    IN  IF h > Len(s) THEN SubSeq(s, i, Len(s))
        ELSE LET e == WordRunEnd(s, h + 1)
             IN  SubSeq(s, i, h - 1) \o RemoveHashtags(s, e + 1)

\* ' '.join(tokens)
RECURSIVE JoinSpace(_)
JoinSpace(tokens) ==
    IF Len(tokens) = 0 THEN <<>>
    ELSE IF Len(tokens) = 1 THEN tokens[1]
    ELSE tokens[1] \o <<" ">> \o JoinSpace(Tail(tokens))

\* a text of n characters c
Run(c, n) == [i \in 1..n |-> c]

----------------------------------------------------------------------------
(* ContentManager._trim_tweet *)

tweet_without_hashtags(t) == Strip(RemoveHashtags(t, 1))

hashtags_text(t) == JoinSpace(FindHashtags(t, 1))

available_length(t, L) == L - Len(hashtags_text(t)) - 1

\* tier 2: the stripped body and the hashtags fit
FitsWithHashtags(t, L) ==
    Len(tweet_without_hashtags(t)) + Len(hashtags_text(t)) + 1 <= L

\* the body cut with no room left for the ellipsis
trimmed_text_NoRoom(t, L) ==
    PySliceTo(tweet_without_hashtags(t), available_length(t, L)) \o ELLIPSIS

\* the body cut of tier 3
trimmed_text(t, L) ==
    PySliceTo(tweet_without_hashtags(t), available_length(t, L) - 3) \o ELLIPSIS

\* the plain cut with no room left for the ellipsis
PlainCut_NoRoom(t, L) == PySliceTo(t, L) \o ELLIPSIS

\* the plain cut of the last tier
PlainCut(t, L) == PySliceTo(t, L - 3) \o ELLIPSIS

\* the trimming with a strict first comparison
_trim_tweet_Strict(t, L) ==
    IF Len(t) < L THEN t
    ELSE IF FitsWithHashtags(t, L)
         THEN Strip(tweet_without_hashtags(t) \o <<" ">> \o hashtags_text(t))
    ELSE IF available_length(t, L) > MIN_AVAILABLE
         THEN Strip(trimmed_text(t, L) \o <<" ">> \o hashtags_text(t))
    ELSE PlainCut(t, L)

_trim_tweet(t, L) ==
    IF Len(t) <= L THEN t
    ELSE IF FitsWithHashtags(t, L)
         THEN Strip(tweet_without_hashtags(t) \o <<" ">> \o hashtags_text(t))
    ELSE IF available_length(t, L) > MIN_AVAILABLE
         THEN Strip(trimmed_text(t, L) \o <<" ">> \o hashtags_text(t))
    ELSE PlainCut(t, L)

----------------------------------------------------------------------------
(* Values *)

NoValue == "None"

\* str.lower() on the letters that occur in the DRY_RUN values
LowerChar(c) ==
    CASE c = "T" -> "t" [] c = "R" -> "r" [] c = "U" -> "u" [] c = "E" -> "e"
      [] c = "F" -> "f" [] c = "A" -> "a" [] c = "L" -> "l" [] c = "S" -> "s"
      [] c = "Y" -> "y"
      [] OTHER -> c

Lower(s) == [i \in 1..Len(s) |-> LowerChar(s[i])]

\* an environment variable: unset, or set to a text
EnvUnset == [is_set |-> FALSE, value |-> <<>>]
EnvSet(text) == [is_set |-> TRUE, value |-> text]

\* values the DRY_RUN variable is given: run.py sets "True"; the .env file
\* can hold any text, among them the ones the validator takes for a flag
EnvValues == { EnvUnset, EnvSet(<<"T", "r", "u", "e">>),
               EnvSet(<<"F", "a", "l", "s", "e">>),
               EnvSet(<<"Y", "e", "s">>), EnvSet(<<"1">>) }

\* os.getenv(name, default)
GetEnv(var, default) == IF var.is_set THEN var.value ELSE default

\* EnvironmentValidator.validate_environment, lines 306-308: the texts of
\* DRY_RUN that draw no warning, compared in lower case
DryRunTexts ==
    { <<"t", "r", "u", "e">>, <<"f", "a", "l", "s", "e">>, <<"y", "e", "s">>,
      <<"n", "o">>, <<"0">>, <<"1">> }

dry_run_warning(var) ==
    Lower(GetEnv(var, <<"F", "a", "l", "s", "e">>)) \notin DryRunTexts

\* texts a generator returns: the data pools are files, any text can be in them
RawTexts == { <<"C", "a", " ", "#", "a">>, <<"a", ".">> }

\* ids the posting API returns
TweetIds == {"1001", "1002"}

\* readings of time.time() and datetime.now()
Clock == {1, 2}

\* f"dry_run_{int(time.time())}"
DryRunIds == <<"dry_run_1", "dry_run_2">>
DryRunId(now) == DryRunIds[now]

\* what generator.generate() does: return a text, or raise on a pool that
\* lacks a key or has an empty list
GenerateOutcomes(generator) ==
    [raises : {FALSE}, text : RawTexts] \cup { [raises |-> TRUE, text |-> <<>>] }

----------------------------------------------------------------------------
(* config/schedule_config.py *)

SCHEDULE_COUNT == 2
START_HOUR == 9
END_HOUR == 21
SCHEDULE_DAYS == 0..6
CATEGORIES == {"crypto", "funny", "finance", "social", "sociology"}

JobIds == 1..SCHEDULE_COUNT

----------------------------------------------------------------------------
(* ContentManager: generation and the history append of the live bot *)

HISTORY_CAP == 100

\* whether the name datetime is bound in content_manager.py: the module
\* imports json, random, logging, typing, pathlib, ScheduleConfig and the
\* four generators, and nothing else
DatetimeImported == FALSE

\* ContentManager.generators.get(category), with the crypto fallback
GeneratorFor(category) ==
    CASE category = "crypto" -> "CryptoGenerator"
      [] category = "funny" -> "FunnyGenerator"
      [] category = "finance" -> "FinanceGenerator"
      [] category = "social" -> "SocialGenerator"
      [] category = "sociology" -> "SocialGenerator"
      [] OTHER -> "CryptoGenerator"

GeneratorKinds == {"CryptoGenerator", "FunnyGenerator", "FinanceGenerator",
                   "SocialGenerator"}

\* a JSON object with no key
EmptyData == [key \in {} |-> <<>>]

\* no ContentManager was constructed yet
NoGenerators ==
    [constructed |-> FALSE, raised |-> FALSE,
     data |-> [kind \in GeneratorKinds |-> EmptyData],
     hashtag_map |-> EmptyData]

\* no generate_tweet call was made yet
NotGenerated ==
    [called |-> FALSE, category |-> NoValue, raised |-> FALSE,
     raw |-> <<>>, text |-> <<>>]

\* no weighted selection was made yet
NoSelection ==
    [called |-> FALSE, items |-> <<>>, weights |-> <<>>, r |-> 0,
     raised |-> NoValue, result |-> NoValue]

\* the export target: not created, or a file of the given format
NoTarget ==
    [exists |-> FALSE, format |-> NoValue, header |-> FALSE,
     fieldnames |-> {}, rows |-> <<>>]

\* no listing was asked for yet
NotListed ==
    [op |-> "none", program |-> NoValue, jobs |-> <<>>, printed |-> <<>>,
     raised |-> NoValue, exit |-> NoValue]

\* no AutoTweetBot was constructed yet
NoBot ==
    [pc |-> "none", is_running |-> FALSE, validated |-> FALSE,
     user_info |-> "untested", exit |-> NoValue]

\* twitter_config was not imported yet and no TwitterClient was constructed
NoClient ==
    [loaded |-> FALSE, config |-> {}, _instance |-> NoValue, client |-> FALSE,
     initialized |-> 0, last |-> "none", result |-> NoValue]

\* no call of the history store was made yet
NoCall ==
    [op |-> "none", args |-> <<>>, raised |-> FALSE, returned |-> NoValue,
     target |-> NoTarget]

Chars(s) == { s[i] : i \in 1..Len(s) }

\* ContentManager._detect_category: the first keyword family found
_detect_category(content) ==
    IF "C" \in Chars(content) THEN "crypto"
    ELSE IF "J" \in Chars(content) THEN "funny"
    ELSE IF "M" \in Chars(content) THEN "finance"
    ELSE IF "S" \in Chars(content) THEN "social"
    ELSE "general"

\* generate_tweet handing the generator's text on as it is
generate_tweet_Untrimmed(raw) == raw

\* ContentManager.generate_tweet for a generator result raw
generate_tweet(raw) == _trim_tweet(raw, TWEET_LIMIT)

\* the record ContentManager.record_tweet builds
tweet_record(tweet_id, content, now) ==
    [id |-> tweet_id, content |-> content, timestamp |-> now,
     category |-> _detect_category(content)]

\* history[-n:] after an append, for a cap n
CapLog(log, n) == IF Len(log) > n THEN PySliceLast(log, n) ELSE log

\* ContentManager.record_tweet: the log file afterwards and what was logged.
\* The file is read first; building the record evaluates datetime.now(),
\* a NameError when the name is not bound; every Exception is caught.
record_tweet(file, tweet_id, content, now) ==
    IF file.state # "ok"
    THEN [file |-> file, logged |-> {"error:Failed to record tweet"}]
    ELSE IF ~DatetimeImported
    THEN [file |-> file, logged |-> {"error:Failed to record tweet"}]
    ELSE [file |-> [file EXCEPT !.records =
                       CapLog(Append(@, tweet_record(tweet_id, content, now)),
                              HISTORY_CAP)],
          logged |-> {"info:Tweet recorded"}]

----------------------------------------------------------------------------
(* HistoryManager: the generic store *)

STORE_CAP == 1000

\* the log file is there and holds a JSON list ("ok"), is not there
\* ("missing"), holds text that is not JSON ("unparseable"), or cannot be
\* opened or decoded ("unreadable": no permission, a directory, bytes that
\* are not UTF-8)
FileStates == {"ok", "missing", "unparseable", "unreadable"}

\* HistoryManager.load_history: FileNotFoundError and JSONDecodeError read
\* as []; any other error of open() or json.load() is raised
load_history(file) ==
    [raised |-> file.state = "unreadable",
     history |-> IF file.state = "ok" THEN file.records ELSE <<>>]

\* how the write of the log file ends: the list is written; open() for
\* writing is refused and the file stays as it is; or open() has emptied the
\* file and json.dump or the write fails before the list is complete
WriteOutcomes == {"written", "refused", "truncated"}

\* HistoryManager.save_history: a failed write is logged and swallowed
save_history(file, log, write) ==
    CASE write = "written" -> [state |-> "ok", records |-> log]
      [] write = "refused" -> file
      [] write = "truncated" -> [state |-> "unparseable", records |-> <<>>]

\* HistoryManager.add_tweet: the log file afterwards
add_tweet(file, tweet_data, write) ==
    IF load_history(file).raised THEN file
    ELSE save_history(file,
                      CapLog(Append(load_history(file).history, tweet_data),
                             STORE_CAP),
                      write)

\* HistoryManager.add_tweet: True from line 42 unless an exception reached
\* the handler of line 43; save_history lets none out
add_tweet_returned(file, write) == ~load_history(file).raised

----------------------------------------------------------------------------
(* TwitterClient.tweet *)

\* what client.create_tweet does: returns data with an id, returns no data,
\* or raises
ApiOutcomes == [kind : {"data"}, id : TweetIds]
                 \cup { [kind |-> "no_data", id |-> NoValue],
                        [kind |-> "TweepyException", id |-> NoValue] }

\* the result dict; an absent key is NoValue, FALSE or the empty text
Result(success, dry_run, tweet_id, text, error) ==
    [success |-> success, dry_run |-> dry_run, tweet_id |-> tweet_id,
     text |-> text, error |-> error]

\* TwitterClient.tweet(content): both except clauses turn a failure into a
\* result with success False
twitter_tweet(content, api) ==
    IF api.kind = "data"
    THEN Result(TRUE, FALSE, api.id, content, NoValue)
    ELSE IF api.kind = "no_data"
    THEN Result(FALSE, FALSE, NoValue, <<>>, "No response data from Twitter API")
    ELSE Result(FALSE, FALSE, NoValue, <<>>, api.kind)

\* dict.get(key, default)
DictGet(value, default) == IF value = NoValue THEN default ELSE value

----------------------------------------------------------------------------
(* TweetScheduler.post_scheduled_tweet, one firing per job *)

NoResult == Result(FALSE, FALSE, NoValue, <<>>, NoValue)

IdleFiring ==
    [pc |-> "idle", tweet_content |-> <<>>, dry_run |-> FALSE,
     result |-> NoResult, posted |-> FALSE, logged |-> {}, outcome |-> NoValue]

\* the flag compared without lower()
dry_run_flag_NoLower(value) ==
    GetEnv(value, <<"F", "a", "l", "s", "e">>) = <<"t", "r", "u", "e">>

\* line 95: os.getenv('DRY_RUN', 'False').lower() == 'true'
dry_run_flag(value) ==
    Lower(GetEnv(value, <<"F", "a", "l", "s", "e">>)) = <<"t", "r", "u", "e">>

\* the firing without the outer try: the exception leaves the handler
fire_except_Escapes(f, error) ==
    [f EXCEPT !.pc = "done", !.outcome = "raised"]

\* lines 119-121: the handler of the outer try
fire_except(f, error) ==
    [f EXCEPT !.pc = "done",
              !.result = Result(FALSE, FALSE, NoValue, <<>>, error),
              !.logged = @ \cup {"error:Error in scheduled tweet"},
              !.outcome = "returned"]

\* the branch of a failed result logging at info level
failure_log_Info == {"info:Failed to process tweet"}

\* lines 114-115: what the branch of a failed result logs
failure_log == {"error:Failed to process tweet"}

\* the trigger of job j comes due: APScheduler submits the job to its pool
\* unless an instance of the job is still running (max_instances is 1);
\* lines 88-91 generate the text
FireGenerate(j) ==
    /\ aps_state = "running"
    /\ pool_alive
    /\ aps_jobs[j] # <<>>
    /\ fire[j].pc \in {"idle", "done"}
    /\ \E category \in CATEGORIES :
       \E out \in GenerateOutcomes(GeneratorFor(category)) :
          fire' = [fire EXCEPT ![j] =
             IF out.raises
             THEN fire_except(IdleFiring, "generate")
             ELSE [IdleFiring EXCEPT !.pc = "post",
                                     !.tweet_content = generate_tweet(out.text)]]
    /\ UNCHANGED <<schedVars, env_DRY_RUN, history, appendVars, trimVars, callVars, cmdVars>>

\* lines 93-107: read the flag, then synthesize the result or post
FirePost(j) ==
    /\ fire[j].pc = "post"
    /\ \E api \in ApiOutcomes :
          LET f == fire[j]
              dry == dry_run_flag(env_DRY_RUN)
          IN  fire' = [fire EXCEPT ![j] =
                IF dry
                THEN [f EXCEPT !.pc = "record", !.dry_run = TRUE,
                               !.result = Result(TRUE, TRUE, NoValue,
                                                 f.tweet_content, NoValue),
                               !.logged = @ \cup {"info:DRY RUN"}]
                ELSE [f EXCEPT !.pc = "record", !.dry_run = FALSE,
                               !.posted = TRUE,
                               !.result = twitter_tweet(f.tweet_content, api),
                               !.logged = @ \cup {"info:Posting tweet"}]]
    /\ UNCHANGED <<schedVars, env_DRY_RUN, history, appendVars, trimVars, callVars, cmdVars>>

\* lines 109-117: record a success, log a failure, return the result
FireRecord(j) ==
    /\ fire[j].pc = "record"
    /\ \E now \in Clock :
          LET f == fire[j]
              tweet_id == DictGet(f.result.tweet_id, DryRunId(now))
              rec == record_tweet(history, tweet_id, f.tweet_content, now)
          IN  IF f.result.success
              THEN /\ history' = rec.file
                   /\ fire' = [fire EXCEPT ![j] =
                        [f EXCEPT !.pc = "done", !.outcome = "returned",
                                  !.logged = @ \cup rec.logged
                                      \cup {"info:Tweet processed successfully"}]]
              ELSE /\ history' = history
                   /\ fire' = [fire EXCEPT ![j] =
                        [f EXCEPT !.pc = "done", !.outcome = "returned",
                                  !.logged = @ \cup failure_log]]
    /\ UNCHANGED <<schedVars, env_DRY_RUN, appendVars, trimVars, callVars, cmdVars>>

Fire == \E j \in JobIds : FireGenerate(j) \/ FirePost(j) \/ FireRecord(j)

InFlight(j) == fire[j].pc \in {"post", "record"}

----------------------------------------------------------------------------
(* TweetScheduler: slots, triggers, start and stop *)

day_names == <<"mon", "tue", "wed", "thu", "fri", "sat", "sun">>

Digits == <<"0", "1", "2", "3", "4", "5", "6", "7", "8", "9">>
Digit(d) == Digits[d + 1]

\* f"{hour:02d}:{minute:02d}"
TimeText(hour, minute) ==
    <<Digit(hour \div 10), Digit(hour % 10), ":",
      Digit(minute \div 10), Digit(minute % 10)>>

\* a draw of random.choice(days), random.randint(start, end - 1) and
\* random.randint(0, 59)
Draw(day, hour, minute) == [day |-> day, hour |-> hour, minute |-> minute]

\* the rounds of SCHEDULE_COUNT draws that Spec follows: the firing does not
\* depend on the slot that was drawn
DrawRounds == { [i \in 1..SCHEDULE_COUNT |-> Draw(6, START_HOUR, 59)] }

\* the cron fields generate_random_schedule returns for a draw
CronOf(d) == [day_of_week |-> Digit(d.day), hour |-> d.hour, minute |-> d.minute]

\* the entry generate_random_schedule stores in scheduled_times for a draw
StoredTime(d) == [day |-> day_names[d.day + 1], time |-> TimeText(d.hour, d.minute)]

\* generate_random_schedule: scheduled_times after a round of draws
generate_random_schedule(times, round) ==
    times \o [i \in 1..SCHEDULE_COUNT |-> StoredTime(round[i])]

\* the jobs schedule_tweets hands to add_job for a round of draws
NewJobs(round) ==
    [i \in 1..SCHEDULE_COUNT |-> [id |-> i, trigger |-> CronOf(round[i])]]

\* the job store after add_job(..., replace_existing=True) of each job of a
\* sequence, in order
RECURSIVE StoreJobs(_, _)
StoreJobs(store, jobs) ==
    IF Len(jobs) = 0 THEN store
    ELSE StoreJobs([store EXCEPT ![Head(jobs).id] = <<Head(jobs).trigger>>],
                   Tail(jobs))

EmptyStore == [j \in JobIds |-> <<>>]

\* schedule_tweets: draw a round and add its jobs; a stopped scheduler keeps
\* them pending, a running one puts them into the job store
schedule_tweets(round) ==
    /\ scheduled_times' = generate_random_schedule(scheduled_times, round)
    /\ IF aps_state = "running"
       THEN /\ aps_jobs' = StoreJobs(aps_jobs, NewJobs(round))
            /\ aps_pending' = aps_pending
       ELSE /\ aps_pending' = aps_pending \o NewJobs(round)
            /\ aps_jobs' = aps_jobs

CanDraw == Len(scheduled_times) + SCHEDULE_COUNT <= SCHEDULE_COUNT * MaxRounds

Call(op, acted, raised) == [op |-> op, acted |-> acted, raised |-> raised]

\* schedule_tweets() called on its own (the --list-scheduled command),
\* with the draws taken from rounds
ScheduleTweetsOf(rounds) ==
    /\ CanDraw
    /\ \E round \in rounds : schedule_tweets(round)
    /\ last_call' = Call("schedule_tweets", TRUE, NoValue)
    /\ UNCHANGED <<is_running, aps_state, pool_alive, shutdowns, stops,
                   sleeping, env_DRY_RUN, history, fire, appendVars, trimVars, callVars>>

\* a start() that never finds the scheduler running
start_skipped_Never == FALSE

\* line 125: start() does nothing when the flag is set
start_skipped == is_running

\* TweetScheduler.start, lines 125-141; the caller then blocks in the sleep
\* loop.  BackgroundScheduler.start moves the pending jobs into the store;
\* it does not renew an executor pool that was shut down.
StartOf(rounds) ==
    /\ IF start_skipped
       THEN /\ last_call' = Call("start", FALSE, NoValue)
            /\ UNCHANGED <<is_running, scheduled_times, apsVars, sleeping>>
       ELSE /\ CanDraw
            /\ \E round \in rounds :
                  /\ scheduled_times' =
                        generate_random_schedule(scheduled_times, round)
                  /\ IF aps_state = "running"
                     THEN \* SchedulerAlreadyRunningError leaves start()
                          /\ aps_jobs' = StoreJobs(aps_jobs, NewJobs(round))
                          /\ last_call' = Call("start", TRUE,
                                               "SchedulerAlreadyRunningError")
                          /\ UNCHANGED <<is_running, aps_state, aps_pending,
                                         pool_alive, shutdowns, sleeping>>
                     ELSE /\ aps_jobs' = StoreJobs(aps_jobs,
                                             aps_pending \o NewJobs(round))
                          /\ aps_pending' = <<>>
                          /\ aps_state' = "running"
                          /\ is_running' = TRUE
                          /\ sleeping' = sleeping + 1
                          /\ last_call' = Call("start", TRUE, NoValue)
                          /\ UNCHANGED <<pool_alive, shutdowns>>
    /\ UNCHANGED <<stops, env_DRY_RUN, history, fire, appendVars, trimVars, callVars>>

ScheduleTweets == ScheduleTweetsOf(DrawRounds) /\ UNCHANGED cmdVars

Start == StartOf(DrawRounds) /\ UNCHANGED cmdVars

\* BackgroundScheduler.shutdown(wait=False) on a running scheduler: no
\* trigger is processed any more, the pool takes no new job and the job
\* store is emptied; jobs already running in the pool are left alone
aps_shutdown ==
    /\ aps_state' = "stopped"
    /\ pool_alive' = FALSE
    /\ aps_jobs' = EmptyStore
    /\ shutdowns' = shutdowns + 1
    /\ UNCHANGED aps_pending

\* BackgroundScheduler.shutdown on a stopped scheduler raises
aps_shutdown_raises == aps_state = "stopped"

\* stop() without the is_running test: the shutdown is always called
stop_body_Unguarded ==
    IF aps_shutdown_raises
    THEN /\ last_call' = Call("stop", TRUE, "SchedulerNotRunningError")
         /\ UNCHANGED <<is_running, scheduled_times, apsVars, stops>>
    ELSE /\ aps_shutdown
         /\ is_running' = FALSE
         /\ stops' = stops + 1
         /\ last_call' = Call("stop", TRUE, NoValue)
         /\ UNCHANGED scheduled_times

\* stop() that clears the flag and leaves the timer running
stop_body_NoShutdown ==
    IF is_running
    THEN /\ is_running' = FALSE
         /\ stops' = stops + 1
         /\ last_call' = Call("stop", TRUE, NoValue)
         /\ UNCHANGED <<scheduled_times, apsVars>>
    ELSE /\ last_call' = Call("stop", FALSE, NoValue)
         /\ UNCHANGED <<is_running, scheduled_times, apsVars, stops>>

\* the body of TweetScheduler.stop, lines 152-156
stop_body ==
    IF is_running
    THEN IF aps_shutdown_raises
         THEN /\ last_call' = Call("stop", TRUE, "SchedulerNotRunningError")
              /\ UNCHANGED <<is_running, scheduled_times, apsVars, stops>>
         ELSE /\ aps_shutdown
              /\ is_running' = FALSE
              /\ stops' = stops + 1
              /\ last_call' = Call("stop", TRUE, NoValue)
              /\ UNCHANGED scheduled_times
    ELSE /\ last_call' = Call("stop", FALSE, NoValue)
         /\ UNCHANGED <<is_running, scheduled_times, apsVars, stops>>

\* TweetScheduler.stop, called from the sleep loop of start() on
\* KeyboardInterrupt/SystemExit (lines 147-148) or by another caller
StopOf(callers) ==
    /\ \E from_loop \in callers :
          IF from_loop
          THEN sleeping > 0 /\ sleeping' = sleeping - 1
          ELSE sleeping' = sleeping
    /\ stop_body
    /\ UNCHANGED <<env_DRY_RUN, history, fire, appendVars, trimVars, callVars>>

Stop == StopOf(BOOLEAN) /\ UNCHANGED cmdVars

\* the process environment is changed: os.environ['DRY_RUN'] = value
SetDryRun ==
    /\ \E value \in EnvValues : env_DRY_RUN' = value
    /\ UNCHANGED <<schedVars, history, fire, appendVars, trimVars, callVars, cmdVars>>

----------------------------------------------------------------------------
(* The bot *)

\* after TweetScheduler() was constructed: ContentManager.__init__ has
\* created the log file with an empty list
Init ==
    /\ is_running = FALSE
    /\ scheduled_times = <<>>
    /\ aps_state = "stopped"
    /\ aps_pending = <<>>
    /\ aps_jobs = EmptyStore
    /\ pool_alive = TRUE
    /\ shutdowns = 0
    /\ stops = 0
    /\ sleeping = 0
    /\ last_call = Call("__init__", TRUE, NoValue)
    /\ env_DRY_RUN = EnvUnset
    /\ history = [state |-> "ok", records |-> <<>>]
    /\ fire = [j \in JobIds |-> IdleFiring]
    /\ append_path = "none"
    /\ appended = <<>>
    /\ tweet = <<>>
    /\ max_length = TWEET_LIMIT
    /\ trim_result = <<>>
    /\ trim_again = <<>>
    /\ trim_pc = "build"
    /\ nparts = 0
    /\ generators = NoGenerators
    /\ generated = NotGenerated
    /\ selection = NoSelection
    /\ store_call = NoCall
    /\ listed = NotListed
    /\ bot = NoBot
    /\ twitter = NoClient

Next == ScheduleTweets \/ Start \/ Stop \/ SetDryRun \/ Fire

Spec == Init /\ [][Next]_vars

----------------------------------------------------------------------------
(* The two append paths, each followed from an empty log *)

\* the k-th record a caller appends: tweet ids are unique
AppendId(k) == k
AppendText == <<"a", ".">>

\* a caller decides which append operation it uses
ChooseAppendPath ==
    /\ append_path = "none"
    /\ \E path \in {"record_tweet", "add_tweet"} : append_path' = path
    /\ UNCHANGED <<appended, history, botVars, trimVars, callVars, cmdVars>>

\* ContentManager.record_tweet(tweet_id, content)
RecordTweetCall ==
    /\ append_path = "record_tweet"
    /\ Len(appended) < MaxAppends
    /\ LET k == Len(appended) + 1   \* the clock reads k at the k-th call
       IN  /\ history' = record_tweet(history, AppendId(k), AppendText, k).file
           /\ appended' = Append(appended,
                                 tweet_record(AppendId(k), AppendText, k))
    /\ UNCHANGED <<append_path, botVars, trimVars, callVars, cmdVars>>

\* HistoryManager.add_tweet(tweet_data), the write succeeding
AddTweetCall ==
    /\ append_path = "add_tweet"
    /\ Len(appended) < MaxAppends
    /\ LET k == Len(appended) + 1
           tweet_data == tweet_record(AppendId(k), AppendText, k)
       IN  /\ history' = add_tweet(history, tweet_data, "written")
           /\ appended' = Append(appended, tweet_data)
    /\ UNCHANGED <<append_path, botVars, trimVars, callVars, cmdVars>>

AppendNext == ChooseAppendPath \/ RecordTweetCall \/ AddTweetCall

SpecAppend == Init /\ [][AppendNext]_vars

----------------------------------------------------------------------------
(* The content generators and a ContentManager constructed on its own *)

\* a text longer than the limit of a tweet
LongText == Run("a", TWEET_LIMIT + 10)

\* a data file: absent, or holding a JSON object
NoFile == [exists |-> FALSE, data |-> EmptyData]
FileOf(data) == [exists |-> TRUE, data |-> data]

\* what generate() returns or that it raised
Returned(text) == [raises |-> FALSE, text |-> text]
Raised == [raises |-> TRUE, text |-> <<>>]

\* random.choice(data[key]) succeeds: KeyError on a missing key, IndexError
\* on an empty list
CanChoose(data, key) == key \in DOMAIN data /\ Len(data[key]) > 0

\* the values random.choice(list) can return
Choice(list) == { list[i] : i \in 1..Len(list) }

\* the first k elements of list after random.shuffle(list)
ShuffledPrefix(list, k) ==
    { [i \in 1..k |-> list[p[i]]] :
        p \in { q \in [1..k -> 1..Len(list)] :
                  \A i, j \in 1..k : i # j => q[i] # q[j] } }

\* str.replace(token, value) on a text in which a placeholder is one element
RECURSIVE Replace(_, _, _)
Replace(s, token, value) ==
    IF token \notin Chars(s) THEN s
    ELSE LET i == CHOOSE i \in 1..Len(s) :
                      s[i] = token /\ \A k \in 1..(i - 1) : s[k] # token
         IN  SubSeq(s, 1, i - 1) \o value
                \o Replace(SubSeq(s, i + 1, Len(s)), token, value)

\* the constructor of every generator: open() and json.load() of its file;
\* the content of the object is not looked at
generator_init(file) ==
    IF file.exists THEN [raises |-> FALSE, data |-> file.data]
    ELSE [raises |-> TRUE, data |-> EmptyData]

\* CryptoGenerator._get_random_hashtags(count)
_get_random_hashtags(data, count) ==
    ShuffledPrefix(data["hashtags"], Min(count, Len(data["hashtags"])))

\* CryptoGenerator.generate
CryptoGenerate(data) ==
    IF ~(CanChoose(data, "topics") /\ CanChoose(data, "templates")
           /\ CanChoose(data, "hashtags"))
    THEN {Raised}
    ELSE { Returned(Strip(
               Replace(Replace(template, "{topic}", topic), "{hashtag}", hashtag)
                 \o <<" ">> \o JoinSpace(additional_hashtags))) :
             topic \in Choice(data["topics"]),
             template \in Choice(data["templates"]),
             hashtag \in Choice(data["hashtags"]),
             additional_hashtags \in _get_random_hashtags(data, 3) }

\* FunnyGenerator.hashtag_map as the constructor sets it
hashtag_map ==
    [programming |-> << <<"#", "a">>, <<"#", "J">>, <<"#", "J">>, <<"#", "a">> >>,
     general |-> << <<"#", "J">>, <<"#", "J">>, <<"#", "J">>, <<"#", "J">> >>,
     puns |-> << <<"#", "a">>, <<"#", "a">>, <<"#", "J">> >>,
     crypto |-> << <<"#", "C">>, <<"#", "C">>, <<"#", "C">> >>]

\* the list after random.shuffle(list)
Shuffled(list) == ShuffledPrefix(list, Len(list))

\* FunnyGenerator.generate with the hashtag map as it stands: the pool is an
\* object of joke lists by sub-style.  The list of the sub-style is taken
\* from the map (a new ['#Funny', '#Humor'] when the map has none) and
\* shuffled in place, so the map keeps the new order.
FunnyGenerate(jokes, map) ==
    IF DOMAIN jokes = {}
    THEN { [raises |-> TRUE, text |-> <<>>, hashtag_map |-> map] }
    ELSE UNION { IF Len(jokes[category]) = 0
                 THEN { [raises |-> TRUE, text |-> <<>>, hashtag_map |-> map] }
                 ELSE { [raises |-> FALSE,
                         text |-> joke \o <<" ", " ">>
                                    \o JoinSpace(SubSeq(hashtags, 1, Min(n, Len(hashtags)))),
                         hashtag_map |-> IF category \in DOMAIN map
                                         THEN [map EXCEPT ![category] = hashtags]
                                         ELSE map] :
                          joke \in Choice(jokes[category]),
                          hashtags \in Shuffled(
                              IF category \in DOMAIN map THEN map[category]
                              ELSE << <<"#", "J">>, <<"#", "J">> >>),
                          n \in 1..3 } :
                 category \in DOMAIN jokes }

\* FinanceGenerator.generate: quote below 0.4, tip below 0.7, else statistic
FinanceGenerate(data) ==
    (IF ~CanChoose(data, "quotes") THEN {Raised}
     ELSE { Returned(<<".">> \o quote.text \o <<".", " ", ".", " ">> \o quote.author
                       \o <<" ", " ", "#", "M", " ", "#", "M", " ", "#", "M">>) :
              quote \in Choice(data["quotes"]) })
    \cup
    (IF ~CanChoose(data, "tips") THEN {Raised}
     ELSE { Returned(<<".", " ", "a", " ", "a", ".", " ">> \o tip
                       \o <<" ", " ", "#", "a", " ", "#", "M", " ", "#", "M">>) :
              tip \in Choice(data["tips"]) })
    \cup
    (IF ~CanChoose(data, "statistics") THEN {Raised}
     ELSE { Returned(<<".", " ", "a", " ", "a", " ", "a", ".", " ">> \o stat
                       \o <<" ", " ", "#", "M", " ", "#", "a", " ", "#", "M">>) :
              stat \in Choice(data["statistics"]) })

\* SocialGenerator.discussion_starters: with and without a social keyword
discussion_starters ==
    << <<"a", " ", "S", " ", "a", ".">>, <<"a", " ", "a", ".">> >>

\* SocialGenerator.generate: topic and question below 0.3, insight below 0.6,
\* else a discussion starter
SocialGenerate(data) ==
    (IF ~CanChoose(data, "topics") \/ ~CanChoose(data, "questions") THEN {Raised}
     ELSE { Returned(topic \o <<" ", " ">> \o question
                       \o <<" ", " ", "#", "S", " ", "#", "S", " ", "#", "a">>) :
              topic \in Choice(data["topics"]),
              question \in Choice(data["questions"]) })
    \cup
    (IF ~CanChoose(data, "insights") THEN {Raised}
     ELSE { Returned(<<".", " ", "S", " ", "a", ".", " ">> \o insight
                       \o <<" ", " ", "#", "S", " ", "#", "a", " ", "#", "a">>) :
              insight \in Choice(data["insights"]) })
    \cup
    { Returned(<<".", " ", "a", ".", " ">> \o starter
                 \o <<" ", " ", "#", "S", " ", "#", "S", " ", "#", "a">>) :
        starter \in Choice(discussion_starters) }

\* the outcomes of a generate() that leaves the hashtag map alone
KeepsMap(outcomes, map) ==
    { [raises |-> out.raises, text |-> out.text, hashtag_map |-> map] :
        out \in outcomes }

\* generator.generate() of a constructed generator
Generate(kind, data, map) ==
    CASE kind = "CryptoGenerator" -> KeepsMap(CryptoGenerate(data), map)
      [] kind = "FunnyGenerator" -> FunnyGenerate(data, map)
      [] kind = "FinanceGenerator" -> KeepsMap(FinanceGenerate(data), map)
      [] kind = "SocialGenerator" -> KeepsMap(SocialGenerate(data), map)

\* items of a pool: a short text and one longer than a tweet
Items == << <<"a">>, LongText >>
Quotes == << [text |-> <<"a">>, author |-> <<"a">>],
             [text |-> LongText, author |-> <<"a">>] >>

\* a well-formed pool of each generator
PoolData(kind) ==
    CASE kind = "CryptoGenerator" ->
           [topics |-> Items,
            templates |-> << <<"{topic}", " ", "a", " ", "{hashtag}">> >>,
            hashtags |-> << <<"#", "C">>, <<"#", "a">> >>]
      [] kind = "FunnyGenerator" -> [general |-> Items, puns |-> Items]
      [] kind = "FinanceGenerator" ->
           [quotes |-> Quotes, tips |-> Items, statistics |-> Items]
      [] kind = "SocialGenerator" ->
           [topics |-> Items, questions |-> Items, insights |-> Items]

\* pools with an empty list or with a key missing
DefectivePools(kind) ==
    CASE kind = "CryptoGenerator" ->
           { [PoolData(kind) EXCEPT !.topics = <<>>],
             [key \in {"topics", "templates"} |-> PoolData(kind)[key]] }
      [] kind = "FunnyGenerator" ->
           { [PoolData(kind) EXCEPT !.puns = <<>>], EmptyData }
      [] kind = "FinanceGenerator" ->
           { [PoolData(kind) EXCEPT !.tips = <<>>],
             [key \in {"quotes", "tips"} |-> PoolData(kind)[key]] }
      [] kind = "SocialGenerator" ->
           { [PoolData(kind) EXCEPT !.questions = <<>>],
             [key \in {"topics", "questions"} |-> PoolData(kind)[key]] }

\* the data files of an installation: every file well formed, or one of
\* them absent or holding a defective pool
PoolFileSets ==
    { [kind \in GeneratorKinds |-> FileOf(PoolData(kind))] }
    \cup
    { [kind \in GeneratorKinds |->
          IF kind = odd THEN file ELSE FileOf(PoolData(kind))] :
        odd \in GeneratorKinds, file \in {NoFile} }
    \cup
    UNION { { [kind \in GeneratorKinds |->
                 IF kind = odd THEN FileOf(data) ELSE FileOf(PoolData(kind))] :
               data \in DefectivePools(odd) } :
            odd \in GeneratorKinds }

\* ContentManager.__init__: the four generators are constructed, each on
\* its file
ContentManager_init(files) ==
    LET made == [kind \in GeneratorKinds |-> generator_init(files[kind])]
    IN  IF \E kind \in GeneratorKinds : made[kind].raises
        THEN [NoGenerators EXCEPT !.raised = TRUE]
        ELSE [constructed |-> TRUE, raised |-> FALSE,
              data |-> [kind \in GeneratorKinds |-> made[kind].data],
              hashtag_map |-> hashtag_map]

\* ContentManager() is called
ContentManagerInit ==
    /\ ~generators.constructed
    /\ \E files \in PoolFileSets : generators' = ContentManager_init(files)
    /\ UNCHANGED <<generated, selection, store_call, botVars, history, appendVars,
                   trimVars, cmdVars>>

\* ContentManager.generate_tweet(): random.choices over the categories, all
\* of positive weight, then generate() and the trimming
GenerateTweet ==
    /\ generators.constructed
    /\ \E selected_category \in CATEGORIES :
         LET kind == GeneratorFor(selected_category)
         IN  \E outcome \in Generate(kind, generators.data[kind],
                                      generators.hashtag_map) :
               /\ generated' =
                    IF outcome.raises
                    THEN [called |-> TRUE, category |-> selected_category,
                          raised |-> TRUE, raw |-> <<>>, text |-> <<>>]
                    ELSE [called |-> TRUE, category |-> selected_category,
                          raised |-> FALSE, raw |-> outcome.text,
                          text |-> generate_tweet(outcome.text)]
               /\ generators' =
                    [generators EXCEPT !.hashtag_map = outcome.hashtag_map]
    /\ UNCHANGED <<selection, store_call, botVars, history, appendVars,
                   trimVars, cmdVars>>

ContentNext == ContentManagerInit \/ GenerateTweet

SpecContent == Init /\ [][ContentNext]_vars

----------------------------------------------------------------------------
(* helpers.weighted_random_choice *)

\* weights and draws are counted in half units, so that a draw can fall
\* between two cumulative weights as well as on one
WeightValues == {0, 2, 4}

\* the lists that are handed over: categories, and weights of any length
ItemLists == { SubSeq(<<"crypto", "funny", "finance", "social", "sociology">>, 1, n) :
                 n \in 0..MaxItems }
WeightLists == UNION { [1..n -> WeightValues] : n \in 0..MaxItems }

\* sum(weights)
RECURSIVE Sum(_)
Sum(weights) ==
    IF Len(weights) = 0 THEN 0 ELSE weights[1] + Sum(Tail(weights))

\* random.uniform(0, total): a + (b - a) * random() can be rounded to b, and
\* sum() can differ from the running total of the loop in the last bit, so
\* the draw can lie just above the last cumulative weight
Uniform(total) == 0..(total + 1)

\* the loop of lines 19-23 comparing with <
RECURSIVE Walk_Strict(_, _, _, _, _)
Walk_Strict(items, weights, r, i, cumulative) ==
    IF i > Len(items) THEN items[Len(items)]
    ELSE IF r < cumulative + weights[i] THEN items[i]
    ELSE Walk_Strict(items, weights, r, i + 1, cumulative + weights[i])

\* the loop of lines 19-23 from the i-th pair on, and the return of line 25
RECURSIVE Walk(_, _, _, _, _)
Walk(items, weights, r, i, cumulative) ==
    IF i > Len(items) THEN items[Len(items)]
    ELSE IF r <= cumulative + weights[i] THEN items[i]
    ELSE Walk(items, weights, r, i + 1, cumulative + weights[i])

\* weighted_random_choice(items, weights) with the draw r
weighted_random_choice(items, weights, r) ==
    IF Len(items) # Len(weights)
    THEN [raised |-> "ValueError", result |-> NoValue]
    ELSE IF Len(items) = 0
    THEN [raised |-> "IndexError", result |-> NoValue]
    ELSE [raised |-> NoValue, result |-> Walk(items, weights, r, 1, 0)]

\* a caller selects among items by weights
WeightedRandomChoice ==
    /\ ~selection.called
    /\ \E items \in ItemLists, weights \in WeightLists :
         \E r \in Uniform(Sum(weights)) :
           LET out == weighted_random_choice(items, weights, r)
           IN  selection' = [called |-> TRUE, items |-> items, weights |-> weights,
                             r |-> r, raised |-> out.raised, result |-> out.result]
    /\ UNCHANGED <<contentVars, store_call, botVars, history, appendVars, trimVars, cmdVars>>

SelectNext == WeightedRandomChoice

SpecSelect == Init /\ [][SelectNext]_vars

----------------------------------------------------------------------------
(* HistoryManager: the read operations, and ContentManager.get_tweet_history *)

\* dict.get(key, default)
Get(t, key, default) == IF key \in DOMAIN t THEN t[key] ELSE default

\* what a call returns, or that it raised
Returns(value) == [raised |-> FALSE, returned |-> value]
Raises == [raised |-> TRUE, returned |-> NoValue]

\* None where a record is expected
NoRecord == EmptyData

\* a quotient n / d of two counts
Ratio(n, d) == [num |-> n, den |-> d]

\* HistoryManager.get_tweet_by_id
get_tweet_by_id(file, tweet_id) ==
    LET loaded == load_history(file)
        hits == { i \in 1..Len(loaded.history) :
                    Get(loaded.history[i], "id", NoValue) = tweet_id }
    IN  IF loaded.raised THEN Raises
        ELSE IF hits = {} THEN Returns(NoRecord)
        ELSE Returns(loaded.history[CHOOSE i \in hits : \A k \in hits : i <= k])

\* HistoryManager.get_recent_tweets
get_recent_tweets(file, limit) ==
    LET loaded == load_history(file)
    IN  IF loaded.raised THEN Raises
        ELSE IF Len(loaded.history) > 0
             THEN Returns(PySliceLast(loaded.history, limit))
        ELSE Returns(<<>>)

\* HistoryManager.get_tweets_by_category
get_tweets_by_category(file, category, limit) ==
    LET loaded == load_history(file)
        filtered == SelectSeq(loaded.history,
                              LAMBDA t : Get(t, "category", NoValue) = category)
    IN  IF loaded.raised THEN Raises
        ELSE IF Len(filtered) > 0 THEN Returns(PySliceLast(filtered, limit))
        ELSE Returns(<<>>)

\* HistoryManager.get_tweets_by_date: a record without a timestamp is
\* skipped (AttributeError); the operation takes no limit
get_tweets_by_date(file, start_date, end_date) ==
    LET loaded == load_history(file)
    IN  IF loaded.raised THEN Raises
        ELSE Returns(SelectSeq(loaded.history,
                               LAMBDA t : /\ "timestamp" \in DOMAIN t
                                          /\ start_date <= t["timestamp"]
                                          /\ t["timestamp"] <= end_date))

\* ContentManager.get_tweet_history: every exception is caught
get_tweet_history(file, limit) ==
    IF file.state # "ok" THEN Returns(<<>>)
    ELSE Returns(PySliceLast(file.records, limit))

\* sum(t.get(key, 0) for t in history)
SumOf(log, key) == Sum([i \in 1..Len(log) |-> Get(log[i], key, 0)])

\* the category distribution of lines 128-131
CategoryCounts(log) ==
    [cat \in { Get(log[i], "category", "unknown") : i \in 1..Len(log) } |->
        Cardinality({ i \in 1..Len(log) : Get(log[i], "category", "unknown") = cat })]

\* the statistics of an empty history, lines 105-114
EmptyStatistics ==
    [total_tweets |-> 0, successful_tweets |-> 0, failed_tweets |-> 0,
     success_rate |-> Ratio(0, 1), total_impressions |-> 0,
     total_engagements |-> 0, categories |-> EmptyData]

\* HistoryManager.get_statistics
get_statistics(file, now) ==
    LET loaded == load_history(file)
        log == loaded.history
        total == Len(log)
        successful == Cardinality({ i \in 1..Len(log) : Get(log[i], "success", FALSE) })
        total_impressions == SumOf(log, "impressions")
        total_engagements ==
            SumOf(log, "likes") + SumOf(log, "retweets") + SumOf(log, "replies")
    IN  IF loaded.raised THEN Raises
        ELSE IF Len(log) = 0 THEN Returns(EmptyStatistics)
        ELSE Returns(
               [total_tweets |-> total,
                successful_tweets |-> successful,
                failed_tweets |-> total - successful,
                success_rate |-> IF total > 0 THEN Ratio(successful, total)
                                 ELSE Ratio(0, 1),
                total_impressions |-> total_impressions,
                total_engagements |-> total_engagements,
                engagement_rate |-> IF total_impressions > 0
                                    THEN Ratio(total_engagements, total_impressions)
                                    ELSE Ratio(0, 1),
                categories |-> CategoryCounts(log),
                last_updated |-> now])

\* str.lower() on the export formats
FormatLower(export_format) ==
    CASE export_format = "CSV" -> "csv"
      [] export_format = "JSON" -> "json"
      [] OTHER -> export_format

\* the export target as a file of the given format
JsonTarget(log) ==
    [exists |-> TRUE, format |-> "json", header |-> FALSE,
     fieldnames |-> {}, rows |-> log]
CsvTarget(header, fieldnames, rows) ==
    [exists |-> TRUE, format |-> "csv", header |-> header,
     fieldnames |-> fieldnames, rows |-> rows]

\* the row csv.DictWriter writes for a record: one cell per field name,
\* empty where the record lacks the key
CsvRow(t, fieldnames) ==
    [key \in fieldnames |-> IF key \in DOMAIN t THEN <<t[key]>> ELSE <<>>]

\* what export_history returns and leaves at the target
Exported(ok, target) == [raised |-> FALSE, returned |-> ok, target |-> target]

\* the CSV branch, lines 183-188, on a log that was loaded; a record with a
\* key that is not a field name makes writerows raise ValueError
ExportCsv(log) ==
    LET fieldnames == DOMAIN log[1]
        bad == { i \in 1..Len(log) : ~(DOMAIN log[i] \subseteq fieldnames) }
        rows == [i \in 1..Len(log) |-> CsvRow(log[i], fieldnames)]
    IN  IF bad = {} THEN Exported(TRUE, CsvTarget(TRUE, fieldnames, rows))
        ELSE Exported(FALSE,
                      CsvTarget(TRUE, fieldnames,
                                SubSeq(rows, 1,
                                       (CHOOSE i \in bad : \A k \in bad : i <= k) - 1)))

\* export_history taking the field names from history[0] without looking
\* whether the log is empty
export_history_NoGuard(file, export_format, write_ok) ==
    LET loaded == load_history(file)
    IN  IF loaded.raised
        THEN [raised |-> TRUE, returned |-> FALSE, target |-> NoTarget]
        ELSE IF FormatLower(export_format) = "json"
        THEN IF write_ok THEN Exported(TRUE, JsonTarget(loaded.history))
             ELSE Exported(FALSE, NoTarget)
        ELSE IF FormatLower(export_format) = "csv"
        THEN IF ~write_ok THEN Exported(FALSE, NoTarget)
             ELSE IF Len(loaded.history) = 0
             THEN Exported(FALSE, CsvTarget(FALSE, {}, <<>>))
             ELSE ExportCsv(loaded.history)
        ELSE Exported(FALSE, NoTarget)

\* HistoryManager.export_history(export_format, filepath) to a target that
\* does not exist yet; write_ok: the target can be opened for writing.
\* The log is loaded before the try block is entered.
export_history(file, export_format, write_ok) ==
    LET loaded == load_history(file)
    IN  IF loaded.raised
        THEN [raised |-> TRUE, returned |-> FALSE, target |-> NoTarget]
        ELSE IF FormatLower(export_format) = "json"
        THEN IF write_ok THEN Exported(TRUE, JsonTarget(loaded.history))
             ELSE Exported(FALSE, NoTarget)
        ELSE IF FormatLower(export_format) = "csv"
        THEN IF ~write_ok THEN Exported(FALSE, NoTarget)
             ELSE IF Len(loaded.history) = 0
             THEN Exported(TRUE, CsvTarget(FALSE, {}, <<>>))
             ELSE ExportCsv(loaded.history)
        ELSE Exported(FALSE, NoTarget)

\* records callers append to the store: with metrics, a failure without
\* any, and one as ContentManager.record_tweet builds it plus metrics
StoreRecords ==
    { [id |-> "1", category |-> "crypto", timestamp |-> 1, success |-> TRUE,
       impressions |-> 100, likes |-> 5],
      [id |-> "2", success |-> FALSE],
      [id |-> "3", content |-> <<"J">>, timestamp |-> 2, category |-> "funny",
       likes |-> 1, retweets |-> 1, replies |-> 1] }

Limits == {0, 1, 2, 10}
QueryCategories == {"crypto", "general"}
QueryIds == {"1", "4"}
Dates == 0..3
ExportFormats == {"json", "csv", "CSV", "xml"}

\* a call of the store: the operation, its arguments, how it ended and the
\* export target it left
StoreCall(op, args, out, target) ==
    [op |-> op, args |-> args, raised |-> out.raised, returned |-> out.returned,
     target |-> target]

\* HistoryManager.add_tweet(tweet_data); the call keeps the file it found
StoreAddTweet ==
    /\ Len(history.records) < MaxLog
    /\ \E tweet_data \in StoreRecords, write \in WriteOutcomes :
         /\ history' = add_tweet(history, tweet_data, write)
         /\ store_call' = StoreCall("add_tweet", <<tweet_data, write, history>>,
                                    Returns(add_tweet_returned(history, write)),
                                    NoTarget)
    /\ UNCHANGED <<contentVars, selection, botVars, appendVars, trimVars, cmdVars>>

\* the log file is removed, overwritten with other text, or made unreadable
\* from outside the program
FileFault ==
    /\ history.state = "ok"
    /\ \E state \in FileStates \ {"ok"} :
         history' = [state |-> state, records |-> <<>>]
    /\ store_call' = NoCall
    /\ UNCHANGED <<contentVars, selection, botVars, appendVars, trimVars, cmdVars>>

\* a read operation with its arguments
ReadOperation(op, args, file) ==
    CASE op = "load_history" ->
           [raised |-> load_history(file).raised,
            returned |-> load_history(file).history]
      [] op = "get_tweet_by_id" -> get_tweet_by_id(file, args[1])
      [] op = "get_recent_tweets" -> get_recent_tweets(file, args[1])
      [] op = "get_tweets_by_category" ->
           get_tweets_by_category(file, args[1], args[2])
      [] op = "get_tweets_by_date" -> get_tweets_by_date(file, args[1], args[2])
      [] op = "get_tweet_history" -> get_tweet_history(file, args[1])
      [] op = "get_statistics" -> get_statistics(file, args[1])

\* the arguments the read operations are called with; get_tweets_by_date
\* without an end date takes datetime.now()
ReadArgs(op) ==
    CASE op = "load_history" -> { <<>> }
      [] op = "get_tweet_by_id" -> { <<id>> : id \in QueryIds }
      [] op = "get_recent_tweets" -> { <<limit>> : limit \in Limits }
      [] op = "get_tweets_by_category" -> QueryCategories \X Limits
      [] op = "get_tweets_by_date" -> Dates \X Dates
      [] op = "get_tweet_history" -> { <<limit>> : limit \in Limits }
      [] op = "get_statistics" -> { <<now>> : now \in Clock }

ReadOps == {"load_history", "get_tweet_by_id", "get_recent_tweets",
            "get_tweets_by_category", "get_tweets_by_date",
            "get_tweet_history", "get_statistics"}

\* one of the read operations is called
StoreRead ==
    /\ \E op \in ReadOps : \E args \in ReadArgs(op) :
         store_call' = StoreCall(op, args, ReadOperation(op, args, history), NoTarget)
    /\ UNCHANGED <<history, contentVars, selection, botVars, appendVars, trimVars, cmdVars>>

\* HistoryManager.export_history
ExportHistory ==
    /\ \E export_format \in ExportFormats, write_ok \in BOOLEAN :
         LET out == export_history(history, export_format, write_ok)
         IN  store_call' = StoreCall("export_history", <<export_format, write_ok>>,
                                     out, out.target)
    /\ UNCHANGED <<history, contentVars, selection, botVars, appendVars, trimVars, cmdVars>>

StoreNext == StoreAddTweet \/ FileFault \/ StoreRead \/ ExportHistory

SpecStore == Init /\ [][StoreNext]_vars

----------------------------------------------------------------------------
(* The slot draw with every day and hour it can yield *)

\* random.randint(a, b)
RandInt(a, b) == a..b

\* the minutes followed: the two ends of random.randint(0, 59)
MinuteDraws == { m \in RandInt(0, 59) : m = 0 \/ m = 59 }

\* the draws of lines 32-39 with the end hour included
SlotDraws_EndIncluded ==
    { Draw(day, hour, minute) :
        day \in SCHEDULE_DAYS, hour \in RandInt(START_HOUR, END_HOUR),
        minute \in MinuteDraws }

\* the draws of lines 32-39: random.choice(days),
\* random.randint(start_hour, end_hour - 1), random.randint(0, 59)
SlotDraws ==
    { Draw(day, hour, minute) :
        day \in SCHEDULE_DAYS, hour \in RandInt(START_HOUR, END_HOUR - 1),
        minute \in MinuteDraws }

\* the rounds of SCHEDULE_COUNT independent draws
SlotRounds == [1..SCHEDULE_COUNT -> SlotDraws]

\* schedule_tweets() on a new scheduler
DrawSchedule ==
    /\ scheduled_times = <<>>
    /\ ScheduleTweetsOf(SlotRounds)
    /\ UNCHANGED cmdVars

\* start() on a new scheduler
DrawStart ==
    /\ scheduled_times = <<>>
    /\ StartOf(SlotRounds)
    /\ UNCHANGED cmdVars

DrawNext == DrawSchedule \/ DrawStart

SpecDraw == Init /\ [][DrawNext]_vars

----------------------------------------------------------------------------
(* Properties of the fire action and of stop(), checked under Spec *)

\* a step of post_scheduled_tweet for job j
FireStep(j) == fire'[j] # fire[j]

\* a firing of job j begins with this step
FireBegins(j) == fire[j].pc \in {"idle", "done"} /\ FireStep(j)

\* the step of job j that handles the result and returns
FireReturns(j) == fire[j].pc = "record" /\ fire'[j].pc = "done"

\* the trigger of job j is registered with a timer that runs its jobs
TriggerLive(j) == aps_state = "running" /\ pool_alive /\ aps_jobs[j] # <<>>

Last(s) == s[Len(s)]

\* C1: a firing that obtained a success result leaves the history log with
\* exactly one new record, placed last, that carries the returned id (or the
\* dry-run placeholder), the generated text and success true.
C1_SuccessIsRecorded ==
    [][ \A j \in JobIds :
          (FireReturns(j) /\ fire[j].result.success)
             => /\ Len(history'.records) = Len(history.records) + 1
                /\ SubSeq(history'.records, 1, Len(history.records))
                      = history.records
                /\ \E now \in Clock :
                      Last(history'.records).id
                         = DictGet(fire[j].result.tweet_id, DryRunId(now))
                /\ Last(history'.records).content = fire[j].tweet_content
                /\ "success" \in DOMAIN Last(history'.records)
                /\ Last(history'.records).success = TRUE ]_vars

\* C2: when the post call of a firing returned success false, no step of
\* that firing changes the history log, the returning step logs an error,
\* the firing leaves is_running and the registered triggers as they are, and
\* a trigger that was live before the firing returned can fire again.
C2_FailedPostContained ==
    /\ [][ \A j \in JobIds :
             (FireStep(j) /\ ~(fire[j].pc = "record" /\ fire[j].result.success))
                => history' = history ]_vars
    /\ [][ \A j \in JobIds :
             (FireReturns(j) /\ fire[j].posted /\ ~fire[j].result.success)
                => /\ history' = history
                   /\ "error:Failed to process tweet" \in fire'[j].logged
                   /\ UNCHANGED <<is_running, aps_state, aps_jobs, pool_alive>>
                   /\ (TriggerLive(j) => TriggerLive(j)')
                   /\ fire'[j].pc = "done" ]_vars
    /\ [](\A j \in JobIds :
             (TriggerLive(j) /\ fire[j].pc = "done") => ENABLED FireGenerate(j))

\* C2 witness: the post call failed, the firing has returned with the error
\* logged, the scheduler is running and the trigger is still live.
C2_Witness ==
    \E j \in JobIds :
        /\ fire[j].pc = "done" /\ fire[j].posted /\ ~fire[j].result.success
        /\ "error:Failed to process tweet" \in fire[j].logged
        /\ is_running /\ TriggerLive(j)

\* C4: no failure leaves post_scheduled_tweet.  A failure of the generation
\* ends the firing with a returned result of success false; a failure of the
\* post call is a result of success false that is handled and returned; a
\* failure of the history append is logged and the firing returns.  No step
\* of a firing changes the scheduler, and a live trigger stays live.
C4_FailuresContained ==
    /\ [](\A j \in JobIds : fire[j].outcome # "raised")
    /\ [][ \A j \in JobIds :
             (FireBegins(j) /\ fire'[j].pc # "post")
                => /\ fire'[j].pc = "done"
                   /\ fire'[j].outcome = "returned"
                   /\ ~fire'[j].result.success ]_vars
    /\ [][ \A j \in JobIds :
             (fire[j].pc = "post" /\ FireStep(j)) => fire'[j].pc = "record" ]_vars
    /\ [][ \A j \in JobIds :
             (fire[j].pc = "record" /\ FireStep(j))
                => /\ fire'[j].pc = "done"
                   /\ fire'[j].outcome = "returned"
                   /\ fire'[j].result = fire[j].result ]_vars
    /\ [][ \A j \in JobIds :
             FireStep(j) => /\ UNCHANGED schedVars
                            /\ (TriggerLive(j) => TriggerLive(j)') ]_vars

\* C4 witness: one firing whose generation failed and one whose history
\* append failed have both returned, and the scheduler is still running.
C4_Witness ==
    \E j, k \in JobIds :
        /\ fire[j].pc = "done" /\ fire[j].outcome = "returned"
        /\ "error:Error in scheduled tweet" \in fire[j].logged
        /\ ~fire[j].result.success
        /\ fire[k].pc = "done" /\ fire[k].outcome = "returned"
        /\ "error:Failed to record tweet" \in fire[k].logged
        /\ is_running /\ TriggerLive(j) /\ TriggerLive(k)

\* the DRY_RUN variable reads 'true' in some letter case
IsTrueText(var) ==
    /\ var.is_set
    /\ Len(var.value) = 4
    /\ var.value[1] \in {"t", "T"} /\ var.value[2] \in {"r", "R"}
    /\ var.value[3] \in {"u", "U"} /\ var.value[4] \in {"e", "E"}

\* C5: the flag is read when the firing decides how to post: with the flag
\* set at that moment no external post call is made and the result is a
\* success that carries the generated text; with it unset or false the post
\* call is made, whatever the flag was at an earlier firing.
C5_DryRunSuppressesPost ==
    [][ \A j \in JobIds :
          (fire[j].pc = "post" /\ FireStep(j))
             => IF IsTrueText(env_DRY_RUN)
                THEN /\ ~fire'[j].posted
                     /\ fire'[j].result.success
                     /\ fire'[j].result.text = fire[j].tweet_content
                     /\ fire'[j].tweet_content = fire[j].tweet_content
                ELSE fire'[j].posted ]_vars

\* C5 witness: a firing under the flag holds its synthesized success without
\* a post call, while the firing of the other job, made when the flag was
\* not set, did post.
C5_Witness ==
    \E j, k \in JobIds :
        /\ fire[j].pc = "record" /\ IsTrueText(env_DRY_RUN)
        /\ fire[j].dry_run /\ ~fire[j].posted /\ fire[j].result.success
        /\ fire[j].result.text = fire[j].tweet_content
        /\ fire[k].pc = "done" /\ fire[k].posted

\* C6: stop() on a scheduler that is not running (stopped before, or never
\* started) raises nothing, calls no shutdown of the timer and leaves the
\* scheduler state as it is.
C6_StopIdempotent ==
    [][ (Stop /\ ~is_running)
           => /\ last_call'.raised = NoValue
              /\ shutdowns' = shutdowns
              /\ UNCHANGED <<is_running, scheduled_times, aps_state,
                             aps_pending, aps_jobs, pool_alive, stops>> ]_vars

\* C6 witness: a stop() found the scheduler already stopped by an earlier
\* stop() and did nothing.
C6_Witness ==
    /\ last_call = Call("stop", FALSE, NoValue)
    /\ stops = 1 /\ shutdowns = 1
    /\ ~is_running

FairSpec == Spec /\ \A j \in JobIds : WF_vars(FirePost(j)) /\ WF_vars(FireRecord(j))

----------------------------------------------------------------------------
(* Property of the append paths, checked under SpecAppend *)

\* the cap of the append path in use
CapOf(path) == IF path = "record_tweet" THEN HISTORY_CAP ELSE STORE_CAP

\* the last n elements of s, in order
LastOf(s, n) == SubSeq(s, Len(s) - n + 1, Len(s))

\* C3: after k appends to an empty log, on either path, the log holds the
\* most recent min(k, cap) appended records in their order.
C3_CapRespected ==
    append_path # "none"
        => history.records
              = LastOf(appended, Min(Len(appended), CapOf(append_path)))

----------------------------------------------------------------------------
(* Inputs of the trimming: texts composed of at most MaxParts runs *)

Parts == { Run("a", 1), Run("a", 18), Run("a", 260),
           Run(" ", 1), Run(" ", 2), Run("#", 1), Run(".", 1) }

MaxLengths == {21, 25, TWEET_LIMIT}

\* the caller composes the text
ComposeText ==
    /\ trim_pc = "build"
    /\ nparts < MaxParts
    /\ \E p \in Parts : tweet' = tweet \o p
    /\ nparts' = nparts + 1
    /\ UNCHANGED <<max_length, trim_result, trim_again, trim_pc, botVars,
                   history, appendVars, callVars, cmdVars>>

\* _trim_tweet(tweet, L) followed by _trim_tweet of its result
CallTrim ==
    /\ trim_pc = "build"
    /\ \E L \in MaxLengths :
          /\ max_length' = L
          /\ trim_result' = _trim_tweet(tweet, L)
          /\ trim_again' = _trim_tweet(_trim_tweet(tweet, L), L)
    /\ trim_pc' = "done"
    /\ UNCHANGED <<tweet, nparts, botVars, history, appendVars, callVars, cmdVars>>

TrimNext == ComposeText \/ CallTrim

SpecTrim == Init /\ [][TrimNext]_vars

----------------------------------------------------------------------------
(* Properties of the trimming, checked under SpecTrim *)

TrimDone == trim_pc = "done"
OverLength == Len(tweet) > max_length

\* the hashtag tokens of the call's text and its hashtag-free body
Tags == hashtags_text(tweet)
Body == tweet_without_hashtags(tweet)

\* the body budget, as the claim states it
Available == max_length - Len(Tags) - 1

\* body b followed by the hashtags, joined by a single space
WithTags(b) ==
    IF Len(Tags) = 0 THEN b
    ELSE IF Len(b) = 0 THEN Tags
    ELSE b \o <<" ">> \o Tags

\* the first n characters of s
FirstChars(s, n) == SubSeq(s, 1, n)

\* C8: for a non-empty text and max_length > 20 the result of _trim_tweet
\* is never longer than max_length, whichever tier produced it.
C8_TrimWithinLimit ==
    (TrimDone /\ Len(tweet) > 0 /\ max_length > 20)
        => Len(trim_result) <= max_length

\* C8 witness: an over-length text with hashtags was cut in the tier that
\* keeps the hashtags and truncates the body, filling the limit exactly.
C8_Witness ==
    /\ TrimDone /\ max_length > 20 /\ OverLength
    /\ Len(Tags) > 0
    /\ ~FitsWithHashtags(tweet, max_length)
    /\ Available > 20
    /\ Len(trim_result) = max_length

\* C9: at the platform limit trimming twice gives the result of trimming
\* once, and a text of at most 280 characters is returned unchanged.
C9_TrimIdempotent ==
    (TrimDone /\ max_length = 280)
        => /\ trim_again = trim_result
           /\ (Len(tweet) <= 280 => trim_result = tweet)

\* C9 witness: a text longer than 280 was trimmed to something else and the
\* second trimming left that result alone.
C9_Witness ==
    /\ TrimDone /\ max_length = 280 /\ OverLength
    /\ trim_result # tweet
    /\ trim_again = trim_result

\* C10 as stated: for an over-length text, when the budget exceeds 20 the
\* result is the whole body or its first available-3 characters plus "...",
\* followed by all hashtags; when the budget is at most 20 the result is
\* the first max_length-3 characters of the original text plus "...".
C10_Original ==
    (TrimDone /\ OverLength)
        => IF Available > 20
           THEN \/ trim_result = WithTags(Body)
                \/ trim_result = WithTags(FirstChars(Body, Available - 3) \o ELLIPSIS)
           ELSE trim_result = FirstChars(tweet, max_length - 3) \o ELLIPSIS

\* C10 amended: for an over-length text, when the stripped body and the
\* hashtags fit into max_length the result is the whole body followed by all
\* hashtags, whatever the budget; otherwise the result is the truncated
\* body followed by all hashtags when the budget exceeds 20, and the plain
\* cut text[:max_length-3] plus "..." when it does not.
C10_TieredDegradation ==
    (TrimDone /\ OverLength)
        => IF Len(Body) + Len(Tags) + 1 <= max_length
           THEN trim_result = WithTags(Body)
           ELSE IF Available > 20
           THEN trim_result = WithTags(FirstChars(Body, Available - 3) \o ELLIPSIS)
           ELSE trim_result = PySliceTo(tweet, max_length - 3) \o ELLIPSIS

\* C10 witness: the budget is at most 20, yet body and hashtags fit and the
\* hashtags are all kept.
C10_Witness ==
    /\ TrimDone /\ OverLength
    /\ Available <= 20
    /\ Len(Tags) > 0 /\ Len(Body) > 0
    /\ trim_result = Body \o <<" ">> \o Tags

----------------------------------------------------------------------------
(* Properties of content generation, checked under SpecContent *)

\* C11: for every category the selection can pick and every text its
\* generator returns, generate_tweet returns a text of at most 280
\* characters; this text is the content handed to record_tweet.
C11_GeneratedWithinLimit ==
    (generated.called /\ ~generated.raised)
        => /\ Len(generated.text) <= TWEET_LIMIT
           /\ \A now \in Clock, id \in TweetIds :
                 Len(tweet_record(id, generated.text, now).content) <= TWEET_LIMIT

\* a generator returned a text longer than 280 characters and generate_tweet
\* returned a shorter one
C11_Witness ==
    /\ generated.called /\ ~generated.raised
    /\ Len(generated.raw) > TWEET_LIMIT
    /\ Len(generated.text) <= TWEET_LIMIT
    /\ generated.text # generated.raw

\* C12: a generator whose pool is missing or has an empty list fails at
\* construction, never at generation: on generators that were constructed,
\* no generate() call raises.
C12_PoolFailsAtConstruction ==
    (generators.constructed /\ generated.called) => ~generated.raised

----------------------------------------------------------------------------
(* Property of the weighted selection, checked under SpecSelect *)

\* the weight accumulated over the first i categories
CumulativeWeight(weights, i) == Sum(SubSeq(weights, 1, i))

\* the categories whose cumulative weight meets or exceeds the draw
Meeting(weights, r) ==
    { i \in 1..Len(weights) : CumulativeWeight(weights, i) >= r }

\* the draw lies in [0, totalWeight)
DrawInRange == selection.r < Sum(selection.weights)

\* the selection was made on as many weights as categories, one positive
SelectionMade ==
    /\ selection.called
    /\ Len(selection.items) = Len(selection.weights)
    /\ \E i \in 1..Len(selection.weights) : selection.weights[i] > 0

----------------------------------------------------------------------------
(* Properties of the history store, checked under SpecStore *)

\* the log file as the last call found it: read operations and exports
\* leave it as it is
LogAtCall == IF history.state = "ok" THEN history.records ELSE <<>>

\* a log file that holds the empty list
EmptyLog == [state |-> "ok", records |-> <<>>]

\* the last call was a read operation or an export
ReadCalled == store_call.op \in ReadOps \cup {"export_history"}

\* C14: every read operation of the store, and the export, completes
\* without raising and behaves as on an empty history whenever the log
\* file is missing, unreadable or not parseable.
C14_ReadsFailSoft ==
    (ReadCalled /\ history.state # "ok")
        => /\ ~store_call.raised
           /\ store_call.op \in ReadOps
                => store_call.returned =
                     ReadOperation(store_call.op, store_call.args, EmptyLog).returned
           /\ store_call.op = "export_history"
                => LET out == export_history(EmptyLog, store_call.args[1],
                                             store_call.args[2])
                   IN  /\ store_call.returned = out.returned
                       /\ store_call.target = out.target

\* the records of the log that match the predicate of the query
Matching(op, args, log) ==
    CASE op = "get_tweets_by_category" ->
           SelectSeq(log, LAMBDA t : "category" \in DOMAIN t /\ t["category"] = args[1])
      [] op = "get_tweets_by_date" ->
           SelectSeq(log, LAMBDA t : /\ "timestamp" \in DOMAIN t
                                     /\ args[1] <= t["timestamp"]
                                     /\ t["timestamp"] <= args[2])
      [] OTHER -> log

\* the limit a query was called with; get_tweets_by_date takes none
LimitOf(op, args) ==
    CASE op = "get_tweets_by_category" -> args[2]
      [] op = "get_tweets_by_date" -> Len(history.records)
      [] OTHER -> args[1]

QueryOps == {"get_recent_tweets", "get_tweets_by_category", "get_tweets_by_date",
             "get_tweet_history"}

\* C15: for every history and every limit >= 0, limit = 0 included, each
\* query returns exactly the last min(limit, m) of the m records that match
\* its predicate, in the order of the log.
C15_QueryReturnsLastLimit ==
    (store_call.op \in QueryOps /\ history.state = "ok")
        => LET matching == Matching(store_call.op, store_call.args, LogAtCall)
               limit == LimitOf(store_call.op, store_call.args)
           IN  /\ ~store_call.raised
               /\ store_call.returned
                    = LastOf(matching, Min(limit, Len(matching)))

\* the statistics contract on the log the call found
StatisticsOf(log) ==
    LET succeeded == { i \in 1..Len(log) : "success" \in DOMAIN log[i] /\ log[i]["success"] }
        engagements == SumOf(log, "likes") + SumOf(log, "retweets") + SumOf(log, "replies")
        impressions == SumOf(log, "impressions")
    IN  [total_tweets |-> Len(log),
         successful_tweets |-> Cardinality(succeeded),
         failed_tweets |-> Len(log) - Cardinality(succeeded),
         success_rate |-> IF Len(log) = 0 THEN Ratio(0, 1)
                          ELSE Ratio(Cardinality(succeeded), Len(log)),
         total_impressions |-> impressions,
         total_engagements |-> engagements,
         engagement_rate |-> IF impressions = 0 THEN Ratio(0, 1)
                             ELSE Ratio(engagements, impressions)]

StatisticsFields == DOMAIN StatisticsOf(<<>>)

StatisticsCalled ==
    store_call.op = "get_statistics" /\ ~store_call.raised

\* C16: for every history, get_statistics returns the counts, the sums and
\* the two rates of the statistics contract, the rates being 0 where their
\* divisor is 0, and category counts that sum to the total count.
C16_StatisticsValues ==
    StatisticsCalled
        => LET stats == store_call.returned
               expected == StatisticsOf(LogAtCall)
           IN  /\ \A field \in StatisticsFields :
                     field \in DOMAIN stats /\ stats[field] = expected[field]
               /\ "categories" \in DOMAIN stats
               /\ Sum([i \in 1..Len(LogAtCall) |->
                          IF Get(LogAtCall[i], "category", "unknown")
                               \in DOMAIN stats["categories"]
                          THEN 1 ELSE 0]) = Len(LogAtCall)
               /\ \A cat \in DOMAIN stats["categories"] :
                     stats["categories"][cat] =
                        Cardinality({ i \in 1..Len(LogAtCall) :
                                        Get(LogAtCall[i], "category", "unknown") = cat })

\* C17: on an empty history get_statistics returns every numeric field of
\* the statistics contract with value zero and an empty category mapping.
C17_EmptyStatistics ==
    (StatisticsCalled /\ Len(LogAtCall) = 0)
        => LET stats == store_call.returned
           IN  /\ \A field \in StatisticsFields \ {"success_rate", "engagement_rate"} :
                     field \in DOMAIN stats /\ stats[field] = 0
               /\ \A field \in {"success_rate", "engagement_rate"} :
                     field \in DOMAIN stats /\ stats[field].num = 0
               /\ "categories" \in DOMAIN stats
               /\ DOMAIN stats["categories"] = {}

ExportCalled == store_call.op = "export_history"

\* C18: export_history never raises; for an unsupported format it returns
\* False and creates no file; when the log cannot be read or the target
\* cannot be written it returns False; it returns True only when the whole
\* log is in the target in the requested format.
C18_ExportNeverRaises ==
    ExportCalled
        => LET format == FormatLower(store_call.args[1])
               write_ok == store_call.args[2]
           IN  /\ ~store_call.raised
               /\ format \notin {"json", "csv"}
                    => store_call.returned = FALSE /\ store_call.target = NoTarget
               /\ (history.state = "unreadable" \/ ~write_ok)
                    => store_call.returned = FALSE
               /\ store_call.returned = TRUE
                    => /\ store_call.target.exists
                       /\ store_call.target.format = format
                       /\ Len(store_call.target.rows) = Len(LogAtCall)

\* C19: exporting an empty history as CSV returns True and leaves a target
\* file without a header row and without data rows, and does not raise.
C19_EmptyCsvExport ==
    (/\ ExportCalled
     /\ FormatLower(store_call.args[1]) = "csv"
     /\ store_call.args[2]
     /\ history.state # "unreadable"
     /\ Len(LogAtCall) = 0)
        => /\ ~store_call.raised
           /\ store_call.returned = TRUE
           /\ store_call.target.exists
           /\ ~store_call.target.header
           /\ store_call.target.rows = <<>>

\* the empty log was exported as CSV to a target that could be written
C19_Witness ==
    /\ ExportCalled
    /\ store_call.args = <<"csv", TRUE>>
    /\ history = EmptyLog
    /\ store_call.returned = TRUE
    /\ store_call.target.exists /\ store_call.target.format = "csv"

----------------------------------------------------------------------------
(* Property of the slot draw, checked under SpecDraw *)

\* the jobs registered with the timer: in its store when it runs, else
\* pending
Registered ==
    IF aps_state = "running"
    THEN { [id |-> j, trigger |-> aps_jobs[j][1]] : j \in { k \in JobIds : aps_jobs[k] # <<>> } }
    ELSE { aps_pending[i] : i \in 1..Len(aps_pending) }

\* a round of slots was drawn
SlotsDrawn == last_call.op \in {"schedule_tweets", "start"} /\ last_call.acted

\* the day texts, day names and time texts of the slots the configuration
\* allows
AllowedDayTexts == { Digit(day) : day \in SCHEDULE_DAYS }
AllowedDayNames == { day_names[day + 1] : day \in SCHEDULE_DAYS }
AllowedTimes ==
    { TimeText(hour, minute) : hour \in START_HOUR..(END_HOUR - 1), minute \in 0..59 }

\* C20: each call of the slot draw produces exactly count slots; every slot
\* has its day among the allowed days, its hour in [startHour, endHour-1]
\* and its minute in [0, 59]; two slots with the same day and time are both
\* kept and both registered as separate weekly triggers.
C20_SlotsDrawnInRange ==
    SlotsDrawn
        => /\ Len(scheduled_times) = SCHEDULE_COUNT
           /\ Cardinality(Registered) = SCHEDULE_COUNT
           /\ { job.id : job \in Registered } = JobIds
           /\ \A job \in Registered :
                 /\ job.trigger.day_of_week \in AllowedDayTexts
                 /\ job.trigger.hour \in START_HOUR..(END_HOUR - 1)
                 /\ job.trigger.minute \in 0..59
           /\ \A i \in 1..Len(scheduled_times) :
                 /\ scheduled_times[i].day \in AllowedDayNames
                 /\ scheduled_times[i].time \in AllowedTimes

\* two slots of one round have the same day and time, at the last hour of
\* the range, and both are registered
C20_Witness ==
    /\ SlotsDrawn
    /\ scheduled_times[1] = scheduled_times[2]
    /\ \E a, b \in Registered :
         /\ a.id # b.id /\ a.trigger = b.trigger
         /\ a.trigger.hour = END_HOUR - 1

----------------------------------------------------------------------------
(* TweetScheduler.get_scheduled_jobs and the --list-scheduled command *)

\* rounds of draws whose slots differ from round to round and within a
\* round, and one that draws the same slot twice
ListRounds ==
    { [i \in 1..SCHEDULE_COUNT |-> IF i = 1 THEN Draw(0, START_HOUR, 0)
                                    ELSE Draw(6, END_HOUR - 1, 59)],
      [i \in 1..SCHEDULE_COUNT |-> Draw(3, 12, 30)] }

\* TweetScheduler.get_scheduled_jobs: one dict per entry of scheduled_times,
\* numbered from 1; id and name are f'tweet_{i}' and f'Scheduled Tweet {i}'
get_scheduled_jobs(times) ==
    [i \in 1..Len(times) |->
        [id |-> i, name |-> i, day |-> times[i].day, time |-> times[i].time,
         next_run |-> <<times[i].day, times[i].time>>]]

\* the keys of a job the command prints, in the order of its print calls
PrintKeys == <<"name", "next_run", "trigger">>

\* the body of the command's loop for one job: a line per key, KeyError at
\* the first key the dict does not have
PrintJob(job) ==
    LET missing == { k \in 1..Len(PrintKeys) : PrintKeys[k] \notin DOMAIN job }
        stop == IF missing = {} THEN Len(PrintKeys) + 1
                ELSE CHOOSE k \in missing : \A m \in missing : k <= m
    IN  [lines |-> [k \in 1..(stop - 1) |-> [job |-> job.id, key |-> PrintKeys[k]]],
         raised |-> missing # {}]

\* the command's loop over the jobs
RECURSIVE PrintJobs(_)
PrintJobs(jobs) ==
    IF Len(jobs) = 0 THEN [printed |-> <<>>, raised |-> NoValue]
    ELSE LET first == PrintJob(Head(jobs))
         IN  IF first.raised
             THEN [printed |-> first.lines, raised |-> "KeyError"]
             ELSE LET rest == PrintJobs(Tail(jobs))
                  IN  [printed |-> first.lines \o rest.printed,
                       raised |-> rest.raised]

\* the programs that have the command
ListPrograms == {"run.py", "src/main.py"}

\* the --list-scheduled branch of main() after schedule_tweets(): list the
\* jobs and print them; the handler of Exception logs the error and calls
\* sys.exit(1)
list_scheduled(program, times) ==
    LET jobs == get_scheduled_jobs(times)
        out == PrintJobs(jobs)
    IN  [op |-> "list_scheduled", program |-> program, jobs |-> jobs,
         printed |-> out.printed, raised |-> out.raised,
         exit |-> IF out.raised = NoValue THEN "0" ELSE "1"]

\* schedule_tweets() on the scheduler
ListSchedule ==
    /\ ScheduleTweetsOf(ListRounds)
    /\ listed' = NotListed
    /\ UNCHANGED <<bot, twitter>>

\* start() on the scheduler
ListStart ==
    /\ StartOf(ListRounds)
    /\ listed' = NotListed
    /\ UNCHANGED <<bot, twitter>>

\* stop() on the scheduler
ListStop ==
    /\ StopOf(BOOLEAN)
    /\ listed' = NotListed
    /\ UNCHANGED <<bot, twitter>>

\* get_scheduled_jobs() on the scheduler
GetScheduledJobs ==
    /\ listed' = [NotListed EXCEPT !.op = "get_scheduled_jobs",
                                   !.jobs = get_scheduled_jobs(scheduled_times)]
    /\ UNCHANGED <<botVars, history, appendVars, trimVars, callVars, bot, twitter>>

\* the --list-scheduled command: a TweetScheduler is constructed, its
\* schedule_tweets() is called and the jobs are listed
ListScheduledCommand ==
    /\ last_call.op = "__init__"
    /\ \E program \in ListPrograms :
         /\ ScheduleTweetsOf(ListRounds)
         /\ listed' = list_scheduled(program, scheduled_times')
    /\ UNCHANGED <<bot, twitter>>

ListNext ==
    ListSchedule \/ ListStart \/ ListStop \/ GetScheduledJobs
        \/ ListScheduledCommand

SpecList == Init /\ [][ListNext]_vars

----------------------------------------------------------------------------
(* Properties of the listing, checked under SpecList *)

\* the trigger the timer holds for each job id: the job store, with the
\* pending jobs added as start() will add them
Triggers == StoreJobs(aps_jobs, aps_pending)

\* the day and time of a trigger, written as scheduled_times writes a slot
SlotOfTrigger(trigger) ==
    [day |-> day_names[(CHOOSE d \in SCHEDULE_DAYS : Digit(d) = trigger.day_of_week) + 1],
     time |-> TimeText(trigger.hour, trigger.minute)]

\* a listing has one entry per registered trigger, with its id and slot
ListsTriggers(jobs, triggers) ==
    /\ Len(jobs) = Cardinality({ j \in JobIds : triggers[j] # <<>> })
    /\ \A i, k \in 1..Len(jobs) : i # k => jobs[i].id # jobs[k].id
    /\ \A i \in 1..Len(jobs) :
          /\ jobs[i].id \in JobIds
          /\ triggers[jobs[i].id] # <<>>
          /\ SlotOfTrigger(triggers[jobs[i].id][1])
                = [day |-> jobs[i].day, time |-> jobs[i].time]

\* C21: after any sequence of schedule_tweets, start and stop calls on one
\* scheduler, get_scheduled_jobs returns exactly one entry per currently
\* registered trigger, carrying that trigger's id, day and time, with no
\* entry for a slot that a later round replaced or that was discarded.
C21_ListsRegisteredTriggers ==
    listed.op = "get_scheduled_jobs" => ListsTriggers(listed.jobs, Triggers)

\* C24: the list-scheduled command prints one entry (name, next run and
\* trigger) per scheduled slot and completes without raising an error.
C24_ListCommandCompletes ==
    listed.op = "list_scheduled"
        => /\ listed.raised = NoValue
           /\ listed.exit = "0"
           /\ Len(listed.printed) = Len(PrintKeys) * Len(scheduled_times)

----------------------------------------------------------------------------
(* TwitterConfig and the TwitterClient singleton *)

\* the class attributes of TwitterConfig, each read from the environment
\* when the module is imported
TwitterRequired == {"API_KEY", "API_SECRET", "ACCESS_TOKEN", "ACCESS_SECRET"}
ConfigVars == TwitterRequired \cup {"BEARER_TOKEN"}

\* TwitterConfig.validate over the attributes that are set: True, or
\* ValueError when a required one is missing
validate(config) == TwitterRequired \subseteq config

\* TwitterClient._initialize on a new instance: validate() first, then the
\* client attributes are set
_initialize(t) ==
    IF validate(t.config)
    THEN [t EXCEPT !.client = TRUE, !.initialized = @ + 1, !.last = "returned"]
    ELSE [t EXCEPT !.last = "ValueError"]

\* TwitterClient.__new__: the new instance is assigned to _instance before
\* _initialize runs on it; an instance that is there is returned as it is
__new__(t) ==
    IF t._instance = NoValue
    THEN _initialize([t EXCEPT !._instance = "instance"])
    ELSE [t EXCEPT !.last = "returned"]

\* what client.create_tweet does for a tweet() of the shared instance
TweetOutcomes == {"data", "no_data", "TweepyException"}

\* TwitterClient.tweet on the instance a construction returned: without the
\* client attribute self.client raises AttributeError, which the handler of
\* Exception turns into a failure result
client_tweet(t, api) ==
    IF ~t.client THEN "AttributeError"
    ELSE IF api = "data" THEN "success" ELSE api

\* config/twitter_config.py is imported: the attributes are read
ImportConfig ==
    /\ ~twitter.loaded
    /\ \E config \in SUBSET ConfigVars :
         twitter' = [twitter EXCEPT !.loaded = TRUE, !.config = config]
    /\ UNCHANGED <<botVars, history, appendVars, trimVars, callVars, listed, bot>>

\* TwitterClient() is called
TwitterClientCall ==
    /\ twitter.loaded
    /\ twitter' = [__new__(twitter) EXCEPT !.result = NoValue]
    /\ UNCHANGED <<botVars, history, appendVars, trimVars, callVars, listed, bot>>

\* tweet() is called on the instance the last construction returned
ClientTweet ==
    /\ twitter.last = "returned"
    /\ \E api \in TweetOutcomes :
         twitter' = [twitter EXCEPT !.result = client_tweet(twitter, api)]
    /\ UNCHANGED <<botVars, history, appendVars, trimVars, callVars, listed, bot>>

ClientNext == ImportConfig \/ TwitterClientCall \/ ClientTweet

SpecClient == Init /\ [][ClientNext]_vars

\* C30: every TwitterClient() construction either raises a configuration
\* error or returns the one shared instance with its client attribute set;
\* initialization succeeds at most once, and a construction after one that
\* failed on missing credentials fails again.
C30_ConstructionInitialized ==
    /\ twitter.last = "returned" => (twitter._instance # NoValue /\ twitter.client)
    /\ twitter.last = "ValueError" => ~validate(twitter.config)
    /\ twitter.initialized <= 1
    /\ (twitter.last # "none" /\ ~validate(twitter.config))
          => twitter.last = "ValueError"

----------------------------------------------------------------------------
(* AutoTweetBot: construction, start and stop of the bot *)

\* what TwitterClient.get_user_info returns: the user's data, or None when
\* the API call failed or returned no data
UserInfos == {"user", NoValue}

\* the connection test that takes any answer for a connection
connection_fails_Never(user_info) == FALSE

\* AutoTweetBot._test_twitter_connection raises unless user info came back
connection_fails(user_info) == user_info = NoValue

\* AutoTweetBot._validate_config: the four required variables are read with
\* os.getenv; the environment is the one TwitterConfig was loaded from
_validate_config(config) == TwitterRequired \subseteq config

\* the bot after the handler of Exception in start(): sys.exit(1)
BotExit(b) == [b EXCEPT !.pc = "exited", !.exit = "1"]

\* AutoTweetBot(): TweetScheduler() constructs the ContentManager and the
\* TwitterClient, then the bot asks for the TwitterClient again; an error
\* of a constructor leaves main() uncaught
BotConstruct ==
    /\ twitter.loaded
    /\ bot.pc = "none"
    /\ \E files \in PoolFileSets :
         LET made == ContentManager_init(files)
             first == IF made.raised THEN twitter ELSE __new__(twitter)
             scheduler_made == ~made.raised /\ first.last = "returned"
             second == IF scheduler_made THEN __new__(first) ELSE first
         IN  /\ generators' = made
             /\ twitter' = second
             /\ bot' = IF scheduler_made /\ second.last = "returned"
                       THEN [bot EXCEPT !.pc = "constructed"]
                       ELSE [bot EXCEPT !.pc = "crashed", !.exit = "1"]
    /\ UNCHANGED <<botVars, history, appendVars, trimVars, generated, selection,
                   store_call, listed>>

\* start(), line 27
BotValidate ==
    /\ bot.pc = "constructed"
    /\ bot' = IF _validate_config(twitter.config)
              THEN [bot EXCEPT !.pc = "validated", !.validated = TRUE]
              ELSE BotExit(bot)
    /\ UNCHANGED <<botVars, history, appendVars, trimVars, callVars, listed, twitter>>

\* start(), line 29
BotTestConnection ==
    /\ bot.pc = "validated"
    /\ \E user_info \in UserInfos :
         bot' = IF connection_fails(user_info)
                THEN BotExit([bot EXCEPT !.user_info = user_info])
                ELSE [bot EXCEPT !.pc = "connected", !.user_info = user_info]
    /\ UNCHANGED <<botVars, history, appendVars, trimVars, callVars, listed, twitter>>

\* start(), line 32: scheduler.start() draws the slots, registers the
\* triggers, starts the timer and stays in its sleep loop
BotSchedulerStart ==
    /\ bot.pc = "connected"
    /\ StartOf(DrawRounds)
    /\ bot' = [bot EXCEPT !.pc = "sleeping"]
    /\ UNCHANGED <<listed, twitter>>

\* KeyboardInterrupt or SystemExit in the sleep loop: the scheduler stops
\* itself, scheduler.start() returns and line 33 sets the flag of the bot
BotInterrupt ==
    /\ bot.pc = "sleeping"
    /\ StopOf({TRUE})
    /\ bot' = [bot EXCEPT !.pc = "returned", !.is_running = TRUE, !.exit = "0"]
    /\ UNCHANGED <<listed, twitter>>

\* KeyboardInterrupt before scheduler.start(): the handler of start() calls
\* stop(), which finds the flag of the bot unset
BotInterruptEarly ==
    /\ bot.pc \in {"constructed", "validated", "connected"}
    /\ bot' = [bot EXCEPT !.pc = "returned", !.exit = "0"]
    /\ UNCHANGED <<botVars, history, appendVars, trimVars, callVars, listed, twitter>>

\* AutoTweetBot.stop() called by another caller of the bot
BotStop ==
    /\ bot.pc \in {"constructed", "validated", "connected", "sleeping", "returned"}
    /\ IF bot.is_running
       THEN /\ stop_body
            /\ bot' = [bot EXCEPT !.is_running = FALSE]
       ELSE /\ UNCHANGED <<is_running, scheduled_times, apsVars, stops, last_call>>
            /\ bot' = bot
    /\ UNCHANGED <<sleeping, env_DRY_RUN, history, fire, appendVars, trimVars,
                   callVars, listed, twitter>>

BotNext ==
    ImportConfig \/ BotConstruct \/ BotValidate \/ BotTestConnection
        \/ BotSchedulerStart \/ BotInterrupt \/ BotInterruptEarly \/ BotStop

SpecBot == Init /\ [][BotNext]_vars

----------------------------------------------------------------------------
(* Properties of the bot, checked under SpecBot *)

\* a slot was drawn, a trigger is registered or the timer was started
Scheduled ==
    \/ scheduled_times # <<>>
    \/ aps_pending # <<>>
    \/ \E j \in JobIds : aps_jobs[j] # <<>>
    \/ aps_state = "running"
    \/ shutdowns > 0

\* a step of the start has failed: a data pool could not be loaded, a
\* required variable is missing, or the connection test got no user
StartFailed ==
    \/ generators.raised
    \/ bot.pc # "none" /\ ~validate(twitter.config)
    \/ bot.user_info = NoValue

\* C22: in a normal start no slot is drawn, no trigger is registered and
\* the timer is never started unless the required configuration was
\* validated, the connection test succeeded and every generator was
\* constructed from its data pool; a failure of any of these ends the start
\* with a fatal error before any scheduling takes place.
C22_ChecksBeforeScheduling ==
    /\ Scheduled => /\ bot.validated
                    /\ TwitterRequired \subseteq twitter.config
                    /\ bot.user_info = "user"
                    /\ generators.constructed
                    /\ twitter.client
    /\ StartFailed => /\ bot.pc \in {"crashed", "exited"}
                      /\ bot.exit = "1"
                      /\ ~Scheduled

\* the checks passed and the scheduler of the bot runs its triggers
C22_Witness ==
    /\ bot.pc = "sleeping" /\ bot.validated /\ bot.user_info = "user"
    /\ generators.constructed
    /\ aps_state = "running" /\ \A j \in JobIds : aps_jobs[j] # <<>>

\* C28: AutoTweetBot.is_running is true exactly while its scheduler is
\* running: in every reachable state the flag of the bot equals the flag of
\* the scheduler.
C28_BotFlagFollowsScheduler == bot.is_running = is_running

----------------------------------------------------------------------------
(* Property of the generators' pools, checked under SpecContent *)

\* C23: a generate() call leaves the generator's data pool, including its
\* hashtag pools and their element order, exactly as it was before the
\* call.
C23_GenerateLeavesPool ==
    [][ (generators.constructed /\ generated' # generated)
           => /\ generators'.data = generators.data
              /\ generators'.hashtag_map = generators.hashtag_map ]_vars

----------------------------------------------------------------------------
(* Properties of the scheduler's life cycle, checked under Spec *)

\* a step that is a start() call
StartStep == last_call'.op = "start" /\ last_call' # last_call

\* is_running is set by a start() that drew a round of slots, registered a
\* trigger for each and started the timer, is cleared by a stop(), and a
\* start() on a running scheduler changes nothing
LifeCycleStep ==
    /\ (~is_running /\ is_running')
          => /\ last_call' = Call("start", TRUE, NoValue)
             /\ aps_state = "stopped" /\ aps_state' = "running"
             /\ Len(scheduled_times') = Len(scheduled_times) + SCHEDULE_COUNT
             /\ \A j \in JobIds : aps_jobs'[j] # <<>>
    /\ (is_running /\ ~is_running')
          => last_call' = Call("stop", TRUE, NoValue)
    /\ (is_running /\ StartStep)
          => /\ ~last_call'.acted
             /\ UNCHANGED <<is_running, scheduled_times, apsVars, stops,
                            sleeping, env_DRY_RUN, history, fire>>

\* C25: is_running is true only after a start() that registered the drawn
\* slots as triggers and started the timer, and until the next stop(); a
\* start() issued while is_running is true draws no slots, registers no
\* triggers and changes no state.
C25_RunningBetweenStartAndStop ==
    /\ [](is_running => /\ aps_state = "running"
                         /\ \A j \in JobIds : aps_jobs[j] # <<>>
                         /\ Len(scheduled_times) >= SCHEDULE_COUNT)
    /\ [][LifeCycleStep]_vars

\* start() was called on a running scheduler, which had fired before
C25_Witness ==
    /\ is_running
    /\ last_call = Call("start", FALSE, NoValue)
    /\ \E j \in JobIds : fire[j].pc = "done"

\* the firing of job j has finished after a post that succeeded
PostedAndDone(j) ==
    fire[j].pc = "done" /\ fire[j].posted /\ fire[j].result.success

\* the log holds the record of the finished firing of job j
Recorded(j) ==
    \E i \in 1..Len(history.records) :
        /\ history.records[i].id = fire[j].result.tweet_id
        /\ history.records[i].content = fire[j].tweet_content

\* C26: when two slots with the same day and time fire and both posts
\* succeed, both firings' records are in the history log after both have
\* finished, however the two fire actions interleave.
C26_BothFiringsRecorded ==
    (/\ \A j \in JobIds : PostedAndDone(j)
     /\ \A i, k \in 1..Len(scheduled_times) : scheduled_times[i] = scheduled_times[k])
        => \A j \in JobIds : Recorded(j)

----------------------------------------------------------------------------
(* Property of the store's append, checked under SpecStore *)

\* the log file after an append of tweet_data to the file before
AppendedTo(before, tweet_data) ==
    [state |-> "ok",
     records |-> CapLog(Append(before.records, tweet_data), STORE_CAP)]

\* C27: add_tweet returns True if and only if, after the call, the log file
\* holds the records it held before (minus entries evicted by the cap)
\* followed by the new record; when the read or the write of the log fails,
\* it returns False and the records previously in the log are still there.
C27_AddTweetReportsOutcome ==
    store_call.op = "add_tweet"
        => LET tweet_data == store_call.args[1]
               before == store_call.args[3]
           IN  /\ (store_call.returned = TRUE)
                      <=> (history = AppendedTo(before, tweet_data))
               /\ (history # AppendedTo(before, tweet_data))
                      => (store_call.returned = FALSE /\ history = before)

----------------------------------------------------------------------------
(* Property of the dry-run flag and the validator, checked under Spec *)

\* the DRY_RUN variable reads 'true', 'yes' or '1' in some letter case
DenotesTrue(var) ==
    /\ var.is_set
    /\ Lower(var.value) \in { <<"t", "r", "u", "e">>, <<"y", "e", "s">>, <<"1">> }

\* C29: for every DRY_RUN setting that the environment validator accepts
\* without warning and that denotes true ('true', 'yes' or '1', in any
\* letter case), a firing makes no external post call.
C29_AcceptedTrueSuppressesPost ==
    [][ \A j \in JobIds :
          (/\ fire[j].pc = "post" /\ FireStep(j)
           /\ ~dry_run_warning(env_DRY_RUN) /\ DenotesTrue(env_DRY_RUN))
             => ~fire'[j].posted ]_vars

====
